---- MODULE Spec2Model ----
(***************************************************************************)
(* Manifest rendering of the Nexlayer MCP server.                          *)
(*                                                                         *)
(* A JavaScript string is modelled as the sequence of its characters (each *)
(* a one-character TLA+ string), so that two texts are equal exactly when  *)
(* they are byte-identical.  The text a renderer returns is the            *)
(* concatenation of the pieces its `+=` statements append; the model keeps *)
(* both the pieces (one per statement executed) and their concatenation.   *)
(***************************************************************************)
EXTENDS Integers, Sequences, FiniteSets, TLC

(***************************************************************************)
(* Bounds of the model.                                                    *)
(***************************************************************************)
MaxPods == 2

MaxPorts == 2

MaxVars == 2

MaxSecrets == 1

(***************************************************************************)
(* Optional values: a property that is undefined, or defined with a value. *)
(***************************************************************************)
None == [def |-> FALSE, val |-> <<>>]

Some(v) == [def |-> TRUE, val |-> v]

(***************************************************************************)
(* Sequence helpers.                                                       *)
(***************************************************************************)
RECURSIVE Flatten(_)
Flatten(ss) == IF ss = <<>> THEN <<>> ELSE Head(ss) \o Flatten(Tail(ss))

RECURSIVE SelectSeqIdx(_, _, _)
\* the indices i >= from of s, in order, with s[i] in the set keep
SelectSeqIdx(s, keep, from) ==
    IF from > Len(s) THEN <<>>
    ELSE IF s[from] \in keep THEN <<from>> \o SelectSeqIdx(s, keep, from + 1)
    ELSE SelectSeqIdx(s, keep, from + 1)

IsPrefix(p, s) == Len(p) <= Len(s) /\ SubSeq(s, 1, Len(p)) = p

IsSuffix(p, s) == Len(p) <= Len(s) /\ SubSeq(s, Len(s) - Len(p) + 1, Len(s)) = p

Range(s) == {s[i] : i \in 1..Len(s)}

Sp(n) == [i \in 1..n |-> " "]

SeqsUpTo(S, n) == UNION {[1..k -> S] : k \in 0..n}

(***************************************************************************)
(* Number formatting: `${port}` of a non-negative integer is its decimal   *)
(* digits.                                                                 *)
(***************************************************************************)
Digits == <<"0", "1", "2", "3", "4", "5", "6", "7", "8", "9">>

RECURSIVE NumToStr(_)
NumToStr(n) ==
    IF n < 10 THEN <<Digits[n + 1]>>
    ELSE NumToStr(n \div 10) \o <<Digits[(n % 10) + 1]>>

DigitValue(c) == CHOOSE d \in 0..9 : Digits[d + 1] = c

IsDigit(c) == c \in Range(Digits)

(***************************************************************************)
(* Property order of a JavaScript object.  An object is modelled by the    *)
(* sequence of its [key, value] properties in the order the keys were      *)
(* first inserted (keys distinct).  Object.keys / Object.entries list the  *)
(* keys that are array indices (canonical decimal strings below 2^32 - 1)  *)
(* first, in ascending numeric order, and then the other string keys in    *)
(* insertion order.                                                        *)
(***************************************************************************)
MaxIndexStr == <<"4", "2", "9", "4", "9", "6", "7", "2", "9", "4">>

RECURSIVE DigitsLess(_, _)
\* a < b for digit strings of equal length
DigitsLess(a, b) ==
    IF a = <<>> THEN FALSE
    ELSE IF Head(a) = Head(b) THEN DigitsLess(Tail(a), Tail(b))
    ELSE DigitValue(Head(a)) < DigitValue(Head(b))

NumLess(a, b) == Len(a) < Len(b) \/ (Len(a) = Len(b) /\ DigitsLess(a, b))

IsArrayIndex(k) ==
    /\ k # <<>>
    /\ \A i \in 1..Len(k) : IsDigit(k[i])
    /\ (Len(k) > 1 => k[1] # "0")
    /\ (NumLess(k, MaxIndexStr) \/ k = MaxIndexStr)

RECURSIVE InsertByIndex(_, _)
\* e put into the sequence es, which is ascending by numeric key
InsertByIndex(e, es) ==
    IF es = <<>> THEN <<e>>
    ELSE IF NumLess(e.key, Head(es).key) THEN <<e>> \o es
    ELSE <<Head(es)>> \o InsertByIndex(e, Tail(es))

RECURSIVE SortByIndex(_)
SortByIndex(es) ==
    IF es = <<>> THEN <<>> ELSE InsertByIndex(Head(es), SortByIndex(Tail(es)))

\* a variant that lists every key in insertion order
ObjectEntries_InsertionOrder(obj) == obj

ObjectEntries(obj) ==
    SortByIndex(SelectSeq(obj, LAMBDA e : IsArrayIndex(e.key)))
        \o SelectSeq(obj, LAMBDA e : ~IsArrayIndex(e.key))

ObjectKeys(obj) == [i \in 1..Len(obj) |-> ObjectEntries(obj)[i].key]

(***************************************************************************)
(* Template literals of NexlayerApiClient.yamlToString.                    *)
(***************************************************************************)
LF == <<"\n">>

DQ == <<"\"">>

\* `application:\n`
L_application == <<"a", "p", "p", "l", "i", "c", "a", "t", "i", "o", "n", ":">> \o LF

\* `name: "`
L_nameQ == <<"n", "a", "m", "e", ":", " ">> \o DQ

\* `  pods:\n`
L_pods == Sp(2) \o <<"p", "o", "d", "s", ":">> \o LF

\* `image: "`
L_imageQ == <<"i", "m", "a", "g", "e", ":", " ">> \o DQ

\* `servicePorts:`
L_servicePorts == <<"s", "e", "r", "v", "i", "c", "e", "P", "o", "r", "t", "s", ":">>

\* `vars:`
L_vars == <<"v", "a", "r", "s", ":">>

\* `secrets:`
L_secrets == <<"s", "e", "c", "r", "e", "t", "s", ":">>

\* `data: "`
L_dataQ == <<"d", "a", "t", "a", ":", " ">> \o DQ

\* `mountPath: "`
L_mountPathQ == <<"m", "o", "u", "n", "t", "P", "a", "t", "h", ":", " ">> \o DQ

\* `fileName: "`
L_fileNameQ == <<"f", "i", "l", "e", "N", "a", "m", "e", ":", " ">> \o DQ

\* `- `
L_dash == <<"-", " ">>

\* `: `
L_colon == <<":", " ">>

(***************************************************************************)
(* NexlayerApiClient.yamlToString: the pieces appended to yamlString, one  *)
(* per `+=` executed, in order.                                            *)
(***************************************************************************)
\* yamlString += `        - ${port}\n`
apiPortPiece(port) == Sp(8) \o L_dash \o NumToStr(port) \o LF

\* yamlString += `        ${key}: "${value}"\n`
apiVarPiece(e) == Sp(8) \o e.key \o L_colon \o DQ \o e.value \o DQ \o LF

\* the four pieces of one secret
apiSecretPieces(secret) ==
    << Sp(8) \o L_dash \o L_nameQ \o secret.name \o DQ \o LF,
       Sp(10) \o L_dataQ \o secret.data \o DQ \o LF,
       Sp(10) \o L_mountPathQ \o secret.mountPath \o DQ \o LF,
       Sp(10) \o L_fileNameQ \o secret.fileName \o DQ \o LF >>

apiPodHeadPieces(pod) ==
    << Sp(4) \o L_dash \o L_nameQ \o pod.name \o DQ \o LF,
       Sp(6) \o L_imageQ \o pod.image \o DQ \o LF >>

\* a variant that stops one port short
apiServicePortsPieces_OffByOne(pod) ==
    IF pod.servicePorts.def /\ Len(pod.servicePorts.val) > 0
    THEN << Sp(6) \o L_servicePorts \o LF >>
             \o [i \in 1..(Len(pod.servicePorts.val) - 1) |->
                    apiPortPiece(pod.servicePorts.val[i])]
    ELSE <<>>

\* if (pod.servicePorts && pod.servicePorts.length > 0) { ... }
apiServicePortsPieces(pod) ==
    IF pod.servicePorts.def /\ Len(pod.servicePorts.val) > 0
    THEN << Sp(6) \o L_servicePorts \o LF >>
             \o [i \in 1..Len(pod.servicePorts.val) |->
                    apiPortPiece(pod.servicePorts.val[i])]
    ELSE <<>>

\* if (pod.vars && Object.keys(pod.vars).length > 0) { ... }
apiVarsPieces(pod) ==
    IF pod.vars.def /\ Len(ObjectKeys(pod.vars.val)) > 0
    THEN << Sp(6) \o L_vars \o LF >>
             \o [i \in 1..Len(pod.vars.val) |->
                    apiVarPiece(ObjectEntries(pod.vars.val)[i])]
    ELSE <<>>

\* if (pod.secrets && pod.secrets.length > 0) { ... }
apiSecretsPieces(pod) ==
    IF pod.secrets.def /\ Len(pod.secrets.val) > 0
    THEN << Sp(6) \o L_secrets \o LF >>
             \o Flatten([i \in 1..Len(pod.secrets.val) |->
                    apiSecretPieces(pod.secrets.val[i])])
    ELSE <<>>

\* a variant that writes the secrets before the ports and vars
apiPodPieces_SecretsFirst(pod) ==
    apiPodHeadPieces(pod) \o apiSecretsPieces(pod)
        \o apiServicePortsPieces(pod) \o apiVarsPieces(pod)

\* the body of yaml.application.pods.forEach((pod) => { ... })
apiPodPieces(pod) ==
    apiPodHeadPieces(pod) \o apiServicePortsPieces(pod)
        \o apiVarsPieces(pod) \o apiSecretsPieces(pod)

\* a variant that walks the pods from the last to the first
yamlToStringPieces_Reversed(yaml) ==
    << L_application,
       Sp(2) \o L_nameQ \o yaml.application.name \o DQ \o LF,
       L_pods >>
      \o Flatten([i \in 1..Len(yaml.application.pods) |->
            apiPodPieces(yaml.application.pods[Len(yaml.application.pods) + 1 - i])])

yamlToStringPieces(yaml) ==
    << L_application,
       Sp(2) \o L_nameQ \o yaml.application.name \o DQ \o LF,
       L_pods >>
      \o Flatten([i \in 1..Len(yaml.application.pods) |->
                    apiPodPieces(yaml.application.pods[i])])

yamlToString(yaml) == Flatten(yamlToStringPieces(yaml))

\* a variant that writes the client's configured session token into the text
generateYaml_WithToken(self, applicationName, pods) ==
    yamlToString([application |-> [name |-> applicationName, pods |-> pods]])
        \o (IF self.config.sessionToken.def THEN <<"#">> ELSE <<>>)

\* NexlayerApiClient.generateYaml; self is the client object (its config)
generateYaml(self, applicationName, pods) ==
    yamlToString([application |-> [name |-> applicationName, pods |-> pods]])

generateYamlPieces(self, applicationName, pods) ==
    yamlToStringPieces([application |-> [name |-> applicationName, pods |-> pods]])

(***************************************************************************)
(* FileGenerator.generateNexlayerYaml: the initial value of yaml and the   *)
(* pieces appended by each `yaml +=`, in order.                            *)
(***************************************************************************)
\* `description: `
L_description == <<"d", "e", "s", "c", "r", "i", "p", "t", "i", "o", "n", ":", " ">>

\* ` application`
L_sp_application == <<" ", "a", "p", "p", "l", "i", "c", "a", "t", "i", "o", "n">>

\* `name: `
L_name == <<"n", "a", "m", "e", ":", " ">>

\* `image: `
L_image == <<"i", "m", "a", "g", "e", ":", " ">>

\* `pods:`
L_podsKey == <<"p", "o", "d", "s", ":">>

\* let yaml = `application:\n  name: ${applicationName}\n  description: ... \n\npods:`
fgHeaderPiece(applicationName) ==
    L_application \o Sp(2) \o L_name \o applicationName \o LF
        \o Sp(2) \o L_description \o applicationName \o L_sp_application \o LF
        \o LF \o L_podsKey

fgPodHeadPieces(pod) ==
    << LF \o Sp(2) \o L_dash \o L_name \o pod.name,
       LF \o Sp(4) \o L_image \o pod.image >>

\* yaml += `\n      - ${port}`
fgPortPiece(port) == LF \o Sp(6) \o L_dash \o NumToStr(port)

\* yaml += `\n      ${key}: ${value}`
fgVarPiece(e) == LF \o Sp(6) \o e.key \o L_colon \o e.value

fgServicePortsPieces(pod) ==
    IF pod.servicePorts.def /\ Len(pod.servicePorts.val) > 0
    THEN << LF \o Sp(4) \o L_servicePorts >>
             \o [i \in 1..Len(pod.servicePorts.val) |->
                    fgPortPiece(pod.servicePorts.val[i])]
    ELSE <<>>

fgVarsPieces(pod) ==
    IF pod.vars.def /\ Len(ObjectKeys(pod.vars.val)) > 0
    THEN << LF \o Sp(4) \o L_vars >>
             \o [i \in 1..Len(pod.vars.val) |->
                    fgVarPiece(ObjectEntries(pod.vars.val)[i])]
    ELSE <<>>

\* the body of for (const pod of pods) { ... }: pod.secrets is never read
fgPodPieces(pod) ==
    fgPodHeadPieces(pod) \o fgServicePortsPieces(pod) \o fgVarsPieces(pod)

generateNexlayerYamlPieces(params) ==
    << fgHeaderPiece(params.applicationName) >>
      \o Flatten([i \in 1..Len(params.pods) |-> fgPodPieces(params.pods[i])])

generateNexlayerYaml(params) == Flatten(generateNexlayerYamlPieces(params))

(***************************************************************************)
(* Input values of the model.                                              *)
(***************************************************************************)
NoneStr == [def |-> FALSE, val |-> ""]

Tokens == {"t1", "t2"}

OptTokens == {NoneStr} \cup {Some(t) : t \in Tokens}

AppNames == {<<>>, <<"x">>}

PodNames == {<<"a">>, <<"b">>}

\* `n:1`
ImageN == <<"n", ":", "1">>

ImageM == <<"m">>

Ports == {80, 3000}

VarA == [key |-> <<"A">>, value |-> <<"x">>]

VarB == [key |-> <<"B">>, value |-> <<"y">>]

Var10 == [key |-> <<"1", "0">>, value |-> <<"x">>]

Var2 == [key |-> <<"2">>, value |-> <<"y">>]

\* A: `x"\n        B: "y`, a value holding a double quote, a line break and a colon
VarQ == [key |-> <<"A">>,
         value |-> <<"x">> \o DQ \o LF \o Sp(8) \o <<"B">> \o L_colon \o DQ \o <<"y">>]

VarEntries == {VarA, VarB, Var10, Var2, VarQ}

DistinctKeys(obj) ==
    \A i, j \in 1..Len(obj) : obj[i].key = obj[j].key => i = j

\* the objects a caller can pass as vars: properties with distinct keys
VarObjs == {obj \in SeqsUpTo(VarEntries, MaxVars) : DistinctKeys(obj)}

PortLists == SeqsUpTo(Ports, MaxPorts)

Secret1 == [name |-> <<"s">>, data |-> <<"d">>,
            mountPath |-> <<"/", "m">>, fileName |-> <<"f">>]

SecretLists == SeqsUpTo({Secret1}, MaxSecrets)

\* ports at and beyond the ends of [1, 65535]
EdgePortLists == {<<0>>, <<65536>>, <<1, 65535>>}

MkPod(n, img, ports, vs, secs) ==
    [name |-> n, image |-> img, servicePorts |-> ports, vars |-> vs, secrets |-> secs]

\* the optional collections of a pod: one of them varied at a time, and all at once
PodShapes ==
    {<<Some(p), None, None>> : p \in PortLists}
      \cup {<<None, Some(v), None>> : v \in VarObjs}
      \cup {<<None, None, Some(x)>> : x \in SecretLists}
      \cup {<<Some(p), None, None>> : p \in EdgePortLists}
      \cup {<<None, None, None>>,
            <<Some(<<3000>>), Some(<<VarA>>), None>>,
            <<Some(<<80>>), Some(<<VarB, Var10>>), Some(<<Secret1>>)>>}

Pods == {MkPod(n, ImageN, sh[1], sh[2], sh[3]) : n \in PodNames, sh \in PodShapes}

\* the pods that follow the first one in a list of several: alternately a pod with
\* a var and a pod with a port, each named as the first pod may be
TailPod(i) ==
    IF i % 2 = 1 THEN MkPod(<<"b">>, ImageM, None, Some(<<VarA>>), None)
    ELSE MkPod(<<"a">>, ImageM, Some(<<80>>), None, None)

PodLists ==
    {<<>>} \cup {<<p>> \o [i \in 1..n |-> TailPod(i)] : p \in Pods, n \in 0..(MaxPods - 1)}

(***************************************************************************)
(* The structural validity of section 3 of the specification (the          *)
(* conditions under which build fails with InvalidSpec).                   *)
(***************************************************************************)
ValidPod(pod) ==
    /\ pod.name # <<>>
    /\ pod.image # <<>>
    /\ pod.servicePorts.def =>
          \A i \in 1..Len(pod.servicePorts.val) :
              pod.servicePorts.val[i] \in 1..65535
    /\ pod.vars.def =>
          /\ \A i \in 1..Len(pod.vars.val) : pod.vars.val[i].key # <<>>
          /\ DistinctKeys(pod.vars.val)
    /\ pod.secrets.def =>
          \A i \in 1..Len(pod.secrets.val) :
              /\ pod.secrets.val[i].mountPath # <<>>
              /\ pod.secrets.val[i].fileName # <<>>

ValidApplication(applicationName, pods) ==
    /\ applicationName # <<>>
    /\ pods # <<>>
    /\ \A i \in 1..Len(pods) : ValidPod(pods[i])
    /\ \A i, j \in 1..Len(pods) : pods[i].name = pods[j].name => i = j

(***************************************************************************)
(* State.                                                                  *)
(***************************************************************************)
VARIABLES
    nexlayerClient,  \* the module-level cached client of index.ts (null at start)
    call,            \* the operation completed last: its arguments and what it returned
    inflight,        \* the invocations waiting at an await
    cwd,             \* the working directory as the running invocation finds and leaves it
    command          \* the child process of the executeCommand call under way

vars == <<nexlayerClient, call, inflight, cwd, command>>

\* instance numbers the NexlayerApiClient objects in the order getClient constructs
\* them (0: none yet)
NullClient == [created |-> FALSE, instance |-> 0, config |-> [sessionToken |-> NoneStr]]

\* new NexlayerApiClient(config)
NewClient(config) == [created |-> TRUE, instance |-> 1, config |-> config]

\* getClient, were a client constructed at every call
getClient_Fresh(cached, sessionToken) ==
    [NewClient([sessionToken |-> sessionToken]) EXCEPT
       !.instance = IF cached.instance < 2 THEN cached.instance + 1 ELSE 2]

\* getClient(sessionToken): the cached client, constructed on first use
getClient(cached, sessionToken) ==
    IF ~cached.created
    THEN [NewClient([sessionToken |-> sessionToken]) EXCEPT !.instance = cached.instance + 1]
    ELSE cached

\* an axios request: the session token and the application name are those of its
\* JSON body (POST) or of its query (GET), absent when the request carries none
NoRequest ==
    [sent |-> FALSE, method |-> "", url |-> "", contentType |-> "", body |-> <<>>,
     sessionToken |-> NoneStr, applicationName |-> None]

NoData == [def |-> FALSE, applicationName |-> <<>>, status |-> "", url |-> NoneStr,
           sessionToken |-> ""]

NoResponse == [kind |-> "none", error |-> ""]

\* package.json as analyzeProject reads it: def is FALSE when the file is missing or
\* is not a JSON object; startsNode tells whether scripts.start includes 'node'
NoPackageJson == [def |-> FALSE, dependencies |-> {}, startsNode |-> FALSE]

\* a directory: whether it can be listed and written, its package.json, the
\* extensions of its source files, its subdirectories and its other files
\* ([path, content]); known is FALSE when no invocation is looking at it
NoDir ==
    [known |-> FALSE, readable |-> FALSE, writable |-> FALSE,
     packageJson |-> NoPackageJson, sources |-> {}, dirs |-> {}, files |-> {}]

\* the child process of executeCommand and the promise around it: the chunks
\* received on stdout and stderr so far, the exit code, how often the promise was
\* resolved and rejected, and the value it was resolved with
NoCommand ==
    [state |-> "none", output |-> <<>>, error |-> <<>>, code |-> 0, resolved |-> 0,
     rejected |-> 0, value |-> [output |-> <<>>, error |-> <<>>], uncaught |-> ""]

\* what analyzeProject returns or throws
NoAnalysis == [threw |-> FALSE, message |-> "", type |-> "", port |-> 0]

\* the parameters of generate-dockerfile
NoDockerfileParams ==
    [name |-> <<>>, type |-> "", port |-> [def |-> FALSE, val |-> 0],
     customDockerfile |-> None]

\* template and args are the text of the one content entry of the handler's result:
\* the template literal and the values interpolated besides error.message
NoCall ==
    [op |-> "none", applicationName |-> <<>>, pods |-> <<>>, sessionToken |-> NoneStr,
     self |-> NullClient, pieces |-> <<>>, yaml |-> <<>>, files |-> <<>>,
     requests |-> <<>>, response |-> NoResponse, template |-> "", error |-> "",
     args |-> <<>>, contents |-> 0, uncaught |-> "", data |-> NoData,
     frontend |-> None, backend |-> None, params |-> NoDockerfileParams,
     dir |-> NoDir, commands |-> <<>>, steps |-> <<>>, instructions |-> <<>>,
     analysis |-> NoAnalysis]

MaxInflight == 2

Invocations == 1..MaxInflight

\* pc is the await an invocation of smart-deploy waits at
NoInvocation ==
    [active |-> FALSE, name |-> <<>>, image |-> <<>>, servicePorts |-> <<>>,
     vars |-> <<>>, sessionToken |-> NoneStr, pods |-> <<>>, requests |-> <<>>,
     pc |-> "", analysis |-> NoAnalysis,
     dockerfileExists |-> FALSE]

Init ==
    /\ nexlayerClient = NullClient
    /\ call = NoCall
    /\ inflight = [i \in Invocations |-> NoInvocation]
    /\ cwd = NoDir
    /\ command = NoCommand

(***************************************************************************)
(* client.generateYaml(applicationName, pods) called directly, as the      *)
(* script test-mcp.js does on a client constructed with {}, or on the      *)
(* cached client.                                                          *)
(***************************************************************************)
ClientGenerateYaml(self, applicationName, pods) ==
    /\ call = NoCall
    /\ call' = [NoCall EXCEPT
                  !.op = "generateYaml",
                  !.applicationName = applicationName,
                  !.pods = pods,
                  !.self = self,
                  !.pieces = generateYamlPieces(self, applicationName, pods),
                  !.yaml = generateYaml(self, applicationName, pods)]
    /\ UNCHANGED <<nexlayerClient, inflight, cwd, command>>

(***************************************************************************)
(* Tool generate-nexlayer-yaml.  The handler cannot fail for a pods array: *)
(* its catch branch is taken when pods is not iterable (undefined).        *)
(***************************************************************************)
ToolGenerateNexlayerYaml(applicationName, optPods) ==
    /\ call = NoCall
    /\ call' =
         IF optPods.def
         THEN LET params == [applicationName |-> applicationName, pods |-> optPods.val]
              IN [NoCall EXCEPT
                    !.op = "generate-nexlayer-yaml",
                    !.applicationName = applicationName,
                    !.pods = optPods.val,
                    !.pieces = generateNexlayerYamlPieces(params),
                    !.yaml = generateNexlayerYaml(params),
                    !.template = "Generated nexlayer.yaml for ${applicationName}",
                    !.contents = 1]
         ELSE [NoCall EXCEPT
                    !.op = "generate-nexlayer-yaml",
                    !.applicationName = applicationName,
                    !.template = "Failed to generate nexlayer.yaml: ${error.message}",
                    !.error = "pods is not iterable",
                    !.contents = 1]
    /\ UNCHANGED <<nexlayerClient, inflight, cwd, command>>

(***************************************************************************)
(* The deployment API as seen by the methods of NexlayerApiClient: a 2xx   *)
(* response whose body carries data, a 2xx response whose body is          *)
(* {success: false, error}, or a rejected request (an HTTP error status or *)
(* no response at all); error is error.response?.data?.error ||            *)
(* error.message of a rejection and body.error of a 2xx response.          *)
(***************************************************************************)
DeploymentResults ==
    {[def |-> TRUE, applicationName |-> <<"x">>, status |-> "running",
      url |-> Some("u"), sessionToken |-> "t1"],
     [def |-> TRUE, applicationName |-> <<"x">>, status |-> "deploying",
      url |-> NoneStr, sessionToken |-> "t2"]}

ApiResponses ==
    {[kind |-> "data", data |-> d, error |-> ""] : d \in DeploymentResults}
      \cup {[kind |-> "successFalse", data |-> NoData, error |-> "quota"],
            [kind |-> "rejected", data |-> NoData, error |-> "quota"]}

\* the responses to a request whose response body the method does not read
VoidResponses ==
    {[kind |-> "data", data |-> NoData, error |-> ""],
     [kind |-> "successFalse", data |-> NoData, error |-> "quota"],
     [kind |-> "rejected", data |-> NoData, error |-> "quota"]}

NoReservations == [def |-> FALSE, list |-> <<>>]

Reservation1 == [applicationName |-> "x", expiresAt |-> "e1"]

Reservation2 == [applicationName |-> "y", expiresAt |-> "e2"]

ReservationResponses ==
    {[kind |-> "data", data |-> [def |-> TRUE, list |-> l], error |-> ""] :
        l \in {<<>>, <<Reservation1>>, <<Reservation1, Reservation2>>}}
      \cup {[kind |-> "successFalse", data |-> NoReservations, error |-> "quota"],
            [kind |-> "rejected", data |-> NoReservations, error |-> "quota"]}

NoValidation == [def |-> FALSE, valid |-> FALSE, errors |-> None, warnings |-> None]

ValidationResults ==
    {[def |-> TRUE, valid |-> TRUE, errors |-> None, warnings |-> None],
     [def |-> TRUE, valid |-> TRUE, errors |-> Some(<<>>), warnings |-> Some(<<"w1">>)],
     [def |-> TRUE, valid |-> FALSE, errors |-> None, warnings |-> None],
     [def |-> TRUE, valid |-> FALSE, errors |-> Some(<<>>), warnings |-> None],
     [def |-> TRUE, valid |-> FALSE, errors |-> Some(<<"e1">>), warnings |-> None],
     [def |-> TRUE, valid |-> FALSE, errors |-> Some(<<"e1", "e2">>),
      warnings |-> Some(<<"w1">>)]}

ValidationResponses ==
    {[kind |-> "data", data |-> v, error |-> ""] : v \in ValidationResults}
      \cup {[kind |-> "successFalse", data |-> NoValidation, error |-> "quota"],
            [kind |-> "rejected", data |-> NoValidation, error |-> "quota"]}

NoSchema == [def |-> FALSE, version |-> ""]

SchemaResponses ==
    {[kind |-> "data", data |-> [def |-> TRUE, version |-> "1"], error |-> ""],
     [kind |-> "successFalse", data |-> NoSchema, error |-> "quota"],
     [kind |-> "rejected", data |-> NoSchema, error |-> "quota"]}

\* apiResult, were a rejected request sent once more
apiResult_Retry(request, failed, resp) ==
    [threw |-> resp.kind = "rejected",
     message |-> IF resp.kind = "rejected" THEN failed \o resp.error ELSE "",
     data |-> resp.data,
     requests |-> IF resp.kind = "rejected" THEN <<request, request>> ELSE <<request>>]

\* the try/catch every method puts around its one request: response.data.data is
\* returned as it is, a rejection is thrown again under the method's own message
apiResult(request, failed, resp) ==
    [threw |-> resp.kind = "rejected",
     message |-> IF resp.kind = "rejected" THEN failed \o resp.error ELSE "",
     data |-> resp.data,
     requests |-> <<request>>]

\* the instance defaults of axios.create
JsonRequest(method, url, sessionToken, applicationName) ==
    [sent |-> TRUE, method |-> method, url |-> url, contentType |-> "application/json",
     body |-> <<>>, sessionToken |-> sessionToken, applicationName |-> applicationName]

\* startUserDeploymentRequest, were the text to send kept in one place for all
\* invocations: a request takes the text of the request still pending
startUserDeploymentRequest_Shared(params) ==
    LET pending == {i \in Invocations : inflight[i].active}
        first == CHOOSE i \in pending : \A j \in pending : i <= j
    IN [sent |-> TRUE, method |-> "POST", url |-> "/startUserDeployment",
        contentType |-> "text/x-yaml",
        body |-> IF pending = {} THEN params.yamlContent
                 ELSE inflight[first].requests[1].body,
        sessionToken |-> NoneStr, applicationName |-> None]

\* what startUserDeployment sends: the YAML as the body, no session token
startUserDeploymentRequest(params) ==
    [sent |-> TRUE, method |-> "POST", url |-> "/startUserDeployment",
     contentType |-> "text/x-yaml", body |-> params.yamlContent,
     sessionToken |-> NoneStr, applicationName |-> None]

\* what startUserDeployment returns or throws for the response resp
startUserDeployment(params, resp) ==
    apiResult(startUserDeploymentRequest(params), "Failed to start deployment: ", resp)

\* extendDeployment, were the token taken from the cached client's configuration
extendDeployment_CachedToken(params, resp) ==
    apiResult(JsonRequest("POST", "/extendDeployment", nexlayerClient.config.sessionToken,
                          Some(params.applicationName)),
              "Failed to extend deployment: ", resp)

extendDeployment(params, resp) ==
    apiResult(JsonRequest("POST", "/extendDeployment", params.sessionToken,
                          Some(params.applicationName)),
              "Failed to extend deployment: ", resp)

claimDeployment(params, resp) ==
    apiResult(JsonRequest("POST", "/claimDeployment", params.sessionToken,
                          Some(params.applicationName)),
              "Failed to claim deployment: ", resp)

addDeploymentReservation(params, resp) ==
    apiResult(JsonRequest("POST", "/addDeploymentReservation", params.sessionToken,
                          Some(params.applicationName)),
              "Failed to add deployment reservation: ", resp)

removeDeploymentReservation(params, resp) ==
    apiResult(JsonRequest("POST", "/removeDeploymentReservation", params.sessionToken,
                          Some(params.applicationName)),
              "Failed to remove deployment reservation: ", resp)

getReservations(params, resp) ==
    apiResult(JsonRequest("GET", "/getReservations", params.sessionToken, None),
              "Failed to get reservations: ", resp)

getSchema(resp) ==
    apiResult(JsonRequest("GET", "/schema", NoneStr, None),
              "Failed to get schema: ", resp)

validateYaml(params, resp) ==
    apiResult([JsonRequest("POST", "/validate", NoneStr, None)
                 EXCEPT !.body = params.yamlContent],
              "Failed to validate YAML: ", resp)

DefaultServicePort == 3000

(***************************************************************************)
(* The try/catch of a handler around a method whose result it reads: the   *)
(* result is read without a check, so an undefined result (a body without  *)
(* data) throws a TypeError into the same catch.                           *)
(***************************************************************************)
handlerResult(done, result, success, failure) ==
    LET base == [done EXCEPT !.requests = result.requests, !.contents = 1]
    IN IF result.threw
       THEN [base EXCEPT !.template = failure, !.error = result.message]
       ELSE IF ~result.data.def
       THEN [base EXCEPT !.template = failure,
                         !.error = "Cannot read properties of undefined"]
       ELSE [base EXCEPT !.template = success]

\* what the handlers that render a manifest and start a deployment have in common
DeployTool(op, applicationName, pods, sessionToken, resp, success, failure) ==
    LET client == getClient(nexlayerClient, sessionToken)
        yamlContent == generateYaml(client, applicationName, pods)
        params == [yamlContent |-> yamlContent, sessionToken |-> sessionToken]
        result == startUserDeployment(params, resp)
        done == [NoCall EXCEPT
                   !.op = op,
                   !.applicationName = applicationName,
                   !.pods = pods,
                   !.sessionToken = sessionToken,
                   !.self = client,
                   !.pieces = generateYamlPieces(client, applicationName, pods),
                   !.yaml = yamlContent,
                   !.response = [kind |-> resp.kind, error |-> resp.error],
                   !.data = IF result.threw THEN NoData ELSE result.data]
    IN /\ call = NoCall
       /\ nexlayerClient' = client
       /\ call' = handlerResult(done, result, success, failure)
       /\ UNCHANGED <<inflight, cwd, command>>

(***************************************************************************)
(* Tool deploy-application.                                                *)
(***************************************************************************)
ToolDeployApplication(name, image, optPorts, optVars, sessionToken, resp) ==
    LET servicePorts == IF optPorts.def THEN optPorts.val ELSE <<DefaultServicePort>>
        vs == IF optVars.def THEN optVars.val ELSE <<>>
    IN DeployTool("deploy-application", name,
                  <<MkPod(name, image, Some(servicePorts), Some(vs), None)>>,
                  sessionToken, resp,
                  "Successfully deployed application \"${name}\"!",
                  "Failed to deploy application: ${error.message}")

\* `-app`
L_appSuffix == <<"-", "a", "p", "p">>

\* `postgres:14`
L_postgres14 == <<"p", "o", "s", "t", "g", "r", "e", "s", ":", "1", "4">>

MkVar(k, v) == [key |-> k, value |-> v]

(***************************************************************************)
(* Tool add-database.                                                      *)
(***************************************************************************)
ToolAddDatabase(optName, optImage, user, password, database, sessionToken, resp) ==
    LET name == IF optName.def THEN optName.val ELSE <<"d", "b">>
        image == IF optImage.def THEN optImage.val ELSE L_postgres14
        vs == <<MkVar(<<"P", "O", "S", "T", "G", "R", "E", "S", "_", "U", "S", "E",
                        "R">>, user),
                MkVar(<<"P", "O", "S", "T", "G", "R", "E", "S", "_", "P", "A", "S",
                        "S", "W", "O", "R", "D">>, password),
                MkVar(<<"P", "O", "S", "T", "G", "R", "E", "S", "_", "D", "B">>,
                      database)>>
    IN DeployTool("add-database", name \o L_appSuffix,
                  <<MkPod(name, image, Some(<<5432>>), Some(vs), None)>>,
                  sessionToken, resp,
                  "Successfully added database \"${name}\"!",
                  "Failed to add database: ${error.message}")

(***************************************************************************)
(* Tool add-prisma-backend.                                                *)
(***************************************************************************)
ToolAddPrismaBackend(optName, image, databaseUrl, sessionToken, resp) ==
    LET name == IF optName.def THEN optName.val ELSE <<"a", "p", "i">>
        vs == <<MkVar(<<"D", "A", "T", "A", "B", "A", "S", "E", "_", "U", "R", "L">>,
                      databaseUrl)>>
    IN DeployTool("add-prisma-backend", name \o L_appSuffix,
                  <<MkPod(name, image, Some(<<4000>>), Some(vs), None)>>,
                  sessionToken, resp,
                  "Successfully added Prisma backend \"${name}\"!",
                  "Failed to add Prisma backend: ${error.message}")

(***************************************************************************)
(* Tool add-openai-integration.                                            *)
(***************************************************************************)
ToolAddOpenAIIntegration(optName, image, openaiApiKey, sessionToken, resp) ==
    LET name == IF optName.def THEN optName.val ELSE <<"o", "p", "e", "n", "a", "i">>
        vs == <<MkVar(<<"O", "P", "E", "N", "A", "I", "_", "A", "P", "I", "_", "K",
                        "E", "Y">>, openaiApiKey)>>
    IN DeployTool("add-openai-integration", name \o L_appSuffix,
                  <<MkPod(name, image, Some(<<3000>>), Some(vs), None)>>,
                  sessionToken, resp,
                  "Successfully added OpenAI integration \"${name}\"!",
                  "Failed to add OpenAI integration: ${error.message}")

(***************************************************************************)
(* Tool create-full-stack.                                                 *)
(***************************************************************************)
ToolCreateFullStack(appName, frontendImage, backendImage, optDatabaseImage, sessionToken, resp) ==
    LET databaseImage ==
            IF optDatabaseImage.def THEN optDatabaseImage.val ELSE L_postgres14
        pods == <<MkPod(<<"f", "r", "o", "n", "t", "e", "n", "d">>, frontendImage,
                        Some(<<3000>>), None, None),
                  MkPod(<<"b", "a", "c", "k", "e", "n", "d">>, backendImage,
                        Some(<<4000>>), None, None),
                  MkPod(<<"d", "a", "t", "a", "b", "a", "s", "e">>, databaseImage,
                        Some(<<5432>>), None, None)>>
    IN DeployTool("create-full-stack", appName, pods, sessionToken, resp,
                  "Successfully created full-stack application \"${appName}\"!",
                  "Failed to create full-stack application: ${error.message}")

(***************************************************************************)
(* Tool deploy-local-yaml: the file is read, then deployed as it is.       *)
(***************************************************************************)
ToolDeployLocalYaml(file, sessionToken, resp) ==
    LET client == getClient(nexlayerClient, sessionToken)
        params == [yamlContent |-> file.content, sessionToken |-> sessionToken]
        result == startUserDeployment(params, resp)
        done == [NoCall EXCEPT
                   !.op = "deploy-local-yaml",
                   !.sessionToken = sessionToken,
                   !.self = client,
                   !.contents = 1]
        success == "Successfully deployed from local YAML file \"${yamlFilePath}\"!"
        failure == "Failed to deploy from local YAML: ${error.message}"
    IN /\ call = NoCall
       /\ nexlayerClient' = client
       /\ call' =
            IF ~file.readable
            THEN [done EXCEPT !.template = failure, !.error = "ENOENT"]
            ELSE handlerResult(
                   [done EXCEPT
                      !.yaml = file.content,
                      !.response = [kind |-> resp.kind, error |-> resp.error],
                      !.data = IF result.threw THEN NoData ELSE result.data],
                   result, success, failure)
       /\ UNCHANGED <<inflight, cwd, command>>

\* what the handlers of extend-deployment and claim-deployment have in common
SessionTool(op, sessionToken, applicationName, resp, result, success, failure) ==
    LET client == getClient(nexlayerClient, sessionToken)
        done == [NoCall EXCEPT
                   !.op = op,
                   !.applicationName = applicationName,
                   !.sessionToken = sessionToken,
                   !.self = client,
                   !.response = [kind |-> resp.kind, error |-> resp.error],
                   !.data = IF result.threw THEN NoData ELSE result.data]
    IN /\ call = NoCall
       /\ nexlayerClient' = client
       /\ call' = handlerResult(done, result, success, failure)
       /\ UNCHANGED <<inflight, cwd, command>>

(***************************************************************************)
(* Tool extend-deployment.                                                 *)
(***************************************************************************)
ToolExtendDeployment(sessionToken, applicationName, resp) ==
    SessionTool("extend-deployment", sessionToken, applicationName, resp,
                extendDeployment([sessionToken |-> sessionToken,
                                  applicationName |-> applicationName], resp),
                "Successfully extended deployment for \"${applicationName}\"!",
                "Failed to extend deployment: ${error.message}")

(***************************************************************************)
(* Tool claim-deployment.                                                  *)
(***************************************************************************)
ToolClaimDeployment(sessionToken, applicationName, resp) ==
    SessionTool("claim-deployment", sessionToken, applicationName, resp,
                claimDeployment([sessionToken |-> sessionToken,
                                 applicationName |-> applicationName], resp),
                "Successfully claimed deployment for \"${applicationName}\"!",
                "Failed to claim deployment: ${error.message}")

(***************************************************************************)
(* Tool manage-reservation: 'add' adds, every other action removes.  The   *)
(* methods return nothing, so the response body is never looked at.        *)
(***************************************************************************)
ToolManageReservation(sessionToken, applicationName, action, resp) ==
    LET client == getClient(nexlayerClient, sessionToken)
        params == [sessionToken |-> sessionToken, applicationName |-> applicationName]
        result == IF action = "add" THEN addDeploymentReservation(params, resp)
                  ELSE removeDeploymentReservation(params, resp)
        done == [NoCall EXCEPT
                   !.op = "manage-reservation",
                   !.applicationName = applicationName,
                   !.sessionToken = sessionToken,
                   !.self = client,
                   !.response = [kind |-> resp.kind, error |-> resp.error],
                   !.requests = result.requests,
                   !.args = <<action>>,
                   !.contents = 1]
    IN /\ call = NoCall
       /\ nexlayerClient' = client
       /\ call' =
            IF result.threw
            THEN [done EXCEPT
                    !.template = "Failed to ${action} reservation: ${error.message}",
                    !.error = result.message]
            ELSE IF action = "add"
            THEN [done EXCEPT
                    !.template = "Successfully added reservation for \"${applicationName}\""]
            ELSE [done EXCEPT
                    !.template =
                        "Successfully removed reservation for \"${applicationName}\""]
       /\ UNCHANGED <<inflight, cwd, command>>

\* Array.prototype.join: the entries with the separator between them
Join(s, sep) ==
    [i \in 1..(IF s = <<>> THEN 0 ELSE 2 * Len(s) - 1) |->
        IF i % 2 = 1 THEN s[(i + 1) \div 2] ELSE sep]

\* the text is the empty string, which JavaScript takes for false
IsEmptyText(frags) == \A i \in 1..Len(frags) : frags[i] = ""

(***************************************************************************)
(* Tool get-reservations.                                                  *)
(***************************************************************************)
ToolGetReservations(sessionToken, resp) ==
    LET client == getClient(nexlayerClient, sessionToken)
        result == getReservations([sessionToken |-> sessionToken], resp)
        done == [NoCall EXCEPT
                   !.op = "get-reservations",
                   !.sessionToken = sessionToken,
                   !.self = client,
                   !.response = [kind |-> resp.kind, error |-> resp.error]]
        list == result.data.list
        reservationList ==
            Join([i \in 1..Len(list) |->
                     "- " \o list[i].applicationName \o " (expires: "
                          \o list[i].expiresAt \o ")"], "\n")
        shown == handlerResult(done, result, "Reservations:\n${reservationList}",
                               "Failed to get reservations: ${error.message}")
    IN /\ call = NoCall
       /\ nexlayerClient' = client
       /\ call' =
            IF result.threw \/ ~result.data.def THEN shown
            ELSE [shown EXCEPT
                    !.args = IF IsEmptyText(reservationList)
                             THEN <<"No reservations found">> ELSE reservationList]
       /\ UNCHANGED <<inflight, cwd, command>>

(***************************************************************************)
(* Tool validate-yaml: the text goes to the API's validator, whose answer  *)
(* is shown.                                                               *)
(***************************************************************************)
ToolValidateYaml(applicationName, pods, yamlContent, resp) ==
    LET client == getClient(nexlayerClient, NoneStr)
        result == validateYaml([yamlContent |-> yamlContent], resp)
        done == [NoCall EXCEPT
                   !.op = "validate-yaml",
                   !.applicationName = applicationName,
                   !.pods = pods,
                   !.yaml = yamlContent,
                   !.self = client,
                   !.response = [kind |-> resp.kind, error |-> resp.error]]
        failure == "Failed to validate YAML: ${error.message}"
        shown == handlerResult(done, result, "YAML is valid!${warnings}", failure)
        v == result.data
        warnings == IF v.warnings.def /\ Len(v.warnings.val) # 0
                    THEN <<"\nWarnings: ">> \o Join(v.warnings.val, ", ") ELSE <<"">>
        errors == IF v.errors.def /\ ~IsEmptyText(Join(v.errors.val, "\n"))
                  THEN Join(v.errors.val, "\n") ELSE <<"Unknown error">>
    IN /\ call = NoCall
       /\ nexlayerClient' = client
       /\ call' =
            IF result.threw \/ ~v.def THEN shown
            ELSE IF v.valid THEN [shown EXCEPT !.args = warnings]
            ELSE [shown EXCEPT
                    !.template = "YAML validation failed:\nErrors: ${errors}",
                    !.args = errors]
       /\ UNCHANGED <<inflight, cwd, command>>

(***************************************************************************)
(* Tool get-schema.                                                        *)
(***************************************************************************)
ToolGetSchema(resp) ==
    LET client == getClient(nexlayerClient, NoneStr)
        result == getSchema(resp)
        done == [NoCall EXCEPT
                   !.op = "get-schema",
                   !.self = client,
                   !.response = [kind |-> resp.kind, error |-> resp.error],
                   !.args = IF result.data.def THEN <<result.data.version>> ELSE <<>>]
    IN /\ call = NoCall
       /\ nexlayerClient' = client
       /\ call' = handlerResult(done, result, "Nexlayer YAML Schema (v${schema.version}):",
                                "Failed to get schema: ${error.message}")
       /\ UNCHANGED <<inflight, cwd, command>>

(***************************************************************************)
(* Generated files.  The text of a template literal is kept as its chunks: *)
(* the literal text between two interpolations, and the interpolated       *)
(* values.  (The literal before `EXPOSE ` is cut in two there.)            *)
(***************************************************************************)
Lit(s) == [lit |-> s, val |-> <<>>]

Val(v) == [lit |-> "", val |-> v]

\* the content of a file whose template is not spelled out here: the generator and
\* the values it interpolates
GeneratedText(generator, values) ==
    <<Lit(generator)>> \o [i \in 1..Len(values) |-> Val(values[i])]

MkFile(name, path, content) == [name |-> name, path |-> path, content |-> content]

\* baseImage, buildCommand, startCommand and dependencies are left undefined in
\* every Dockerfile below, as generateDockerfilesForFullStack and smart-deploy do
\* file-generator.ts:158
generateNodeDockerfile(name, port) ==
    <<Lit("FROM node:18-alpine\n\nWORKDIR /app\n\nCOPY package*.json ./\n\nRUN npm install"),
      Val(<<>>),
      Lit("\n\nCOPY . .\n\n"),
      Val(<<>>),
      Lit("\n\n"),
      Lit("EXPOSE "),
      Val(NumToStr(port)),
      Lit("\n\nCMD [\""),
      Val(<<"n", "p", "m", " ", "s", "t", "a", "r", "t">>),
      Lit("\"]")>>

\* file-generator.ts:176
generateReactDockerfile(name, port) ==
    <<Lit("FROM node:18-alpine as build\n\nWORKDIR /app\n\nCOPY package*.json ./\n\nRUN npm install\n\nCOPY . .\n\nRUN npm run build\n\nFROM nginx:alpine\n\nCOPY --from=build /app/build /usr/share/nginx/html\n\nCOPY nginx.conf /etc/nginx/conf.d/default.conf\n\n"),
      Lit("EXPOSE "),
      Val(NumToStr(port)),
      Lit("\n\nCMD [\"nginx\", \"-g\", \"daemon off;\"]")>>

\* file-generator.ts:200
generateNextDockerfile(name, port) ==
    <<Lit("FROM node:18-alpine\n\nWORKDIR /app\n\nCOPY package*.json ./\n\nRUN npm install\n\nCOPY . .\n\nRUN npm run build\n\n"),
      Lit("EXPOSE "),
      Val(NumToStr(port)),
      Lit("\n\nCMD [\"npm\", \"start\"]")>>

\* file-generator.ts:218
generateVueDockerfile(name, port) ==
    <<Lit("FROM node:18-alpine as build\n\nWORKDIR /app\n\nCOPY package*.json ./\n\nRUN npm install\n\nCOPY . .\n\nRUN npm run build\n\nFROM nginx:alpine\n\nCOPY --from=build /app/dist /usr/share/nginx/html\n\n"),
      Lit("EXPOSE "),
      Val(NumToStr(port)),
      Lit("\n\nCMD [\"nginx\", \"-g\", \"daemon off;\"]")>>

\* file-generator.ts:240
generatePythonDockerfile(name, port) ==
    <<Lit("FROM "),
      Val(<<"p", "y", "t", "h", "o", "n", ":", "3", ".", "1", "1", "-", "s", "l", "i", "m">>),
      Lit("\n\nWORKDIR /app\n\nCOPY requirements.txt .\n\nRUN pip install "),
      Val(<<"f", "l", "a", "s", "k">>),
      Lit("\n\nCOPY . .\n\n"),
      Lit("EXPOSE "),
      Val(NumToStr(port)),
      Lit("\n\nCMD [\"python\", \"app.py\"]")>>

\* file-generator.ts:259
generateGoDockerfile(name, port) ==
    <<Lit("FROM "),
      Val(<<"g", "o", "l", "a", "n", "g", ":", "1", ".", "2", "1", "-", "a", "l", "p", "i", "n", "e">>),
      Lit(" as builder\n\nWORKDIR /app\n\nCOPY go.mod go.sum ./\n\nRUN go mod download\n\nCOPY . .\n\nRUN go build -o main .\n\nFROM alpine:latest\n\nWORKDIR /app\n\nCOPY --from=builder /app/main .\n\n"),
      Lit("EXPOSE "),
      Val(NumToStr(port)),
      Lit("\n\nCMD [\"./main\"]")>>

\* file-generator.ts:285
generateRustDockerfile(name, port) ==
    <<Lit("FROM "),
      Val(<<"r", "u", "s", "t", ":", "1", ".", "7", "5", "-", "a", "l", "p", "i", "n", "e">>),
      Lit(" as builder\n\nWORKDIR /app\n\nCOPY Cargo.toml Cargo.lock ./\n\nRUN cargo build --release\n\nFROM alpine:latest\n\nWORKDIR /app\n\nCOPY --from=builder /app/target/release/"),
      Val(name),
      Lit(" .\n\n"),
      Lit("EXPOSE "),
      Val(NumToStr(port)),
      Lit("\n\nCMD [\"./"),
      Val(name),
      Lit("\"]")>>

\* file-generator.ts:307
generatePhpDockerfile(name, port) ==
    <<Lit("FROM "),
      Val(<<"p", "h", "p", ":", "8", ".", "2", "-", "a", "p", "a", "c", "h", "e">>),
      Lit("\n\nWORKDIR /var/www/html\n\nCOPY . .\n\n"),
      Lit("EXPOSE "),
      Val(NumToStr(port)),
      Lit("\n\nCMD [\"apache2-foreground\"]")>>

\* file-generator.ts:321
generateJavaDockerfile(name, port) ==
    <<Lit("FROM "),
      Val(<<"o", "p", "e", "n", "j", "d", "k", ":", "1", "7", "-", "j", "d", "k", "-", "a", "l", "p", "i", "n", "e">>),
      Lit("\n\nWORKDIR /app\n\nCOPY target/"),
      Val(name),
      Lit(".jar app.jar\n\n"),
      Lit("EXPOSE "),
      Val(NumToStr(port)),
      Lit("\n\nCMD [\"java\", \"-jar\", \"app.jar\"]")>>

\* file-generator.ts:335
generateDotnetDockerfile(name, port) ==
    <<Lit("FROM "),
      Val(<<"m", "c", "r", ".", "m", "i", "c", "r", "o", "s", "o", "f", "t", ".", "c", "o", "m", "/", "d", "o", "t", "n", "e", "t", "/", "a", "s", "p", "n", "e", "t", ":", "7", ".", "0">>),
      Lit("\n\nWORKDIR /app\n\nCOPY bin/Release/net7.0/publish .\n\n"),
      Lit("EXPOSE "),
      Val(NumToStr(port)),
      Lit("\n\nCMD [\"dotnet\", \""),
      Val(name),
      Lit(".dll\"]")>>

DockerfileTypes ==
    {"node", "react", "next", "nextjs", "vue", "python", "go", "rust", "php", "java",
     "dotnet"}

\* generateDockerfile, were its port defaulted with `port || 3000`
generateDockerfile_FalsyPort(params) ==
    LET name == params.name
        type == params.type
        port == IF params.port.def /\ params.port.val # 0 THEN params.port.val ELSE 3000
        content ==
            CASE type = "node" -> generateNodeDockerfile(name, port)
              [] type = "react" -> generateReactDockerfile(name, port)
              [] type \in {"next", "nextjs"} -> generateNextDockerfile(name, port)
              [] type = "vue" -> generateVueDockerfile(name, port)
              [] type = "python" -> generatePythonDockerfile(name, port)
              [] type = "go" -> generateGoDockerfile(name, port)
              [] type = "rust" -> generateRustDockerfile(name, port)
              [] type = "php" -> generatePhpDockerfile(name, port)
              [] type = "java" -> generateJavaDockerfile(name, port)
              [] type = "dotnet" -> generateDotnetDockerfile(name, port)
              [] OTHER -> <<>>
    IN IF params.customDockerfile.def /\ params.customDockerfile.val # <<>>
       THEN [threw |-> FALSE, message |-> "", content |-> <<Val(params.customDockerfile.val)>>]
       ELSE IF type \in DockerfileTypes
       THEN [threw |-> FALSE, message |-> "", content |-> content]
       ELSE [threw |-> TRUE, message |-> "Unsupported application type: " \o type,
             content |-> <<>>]

\* generateDockerfile(params): the Dockerfile, or the error of the default branch
generateDockerfile(params) ==
    LET name == params.name
        type == params.type
        port == IF params.port.def THEN params.port.val ELSE 3000
        content ==
            CASE type = "node" -> generateNodeDockerfile(name, port)
              [] type = "react" -> generateReactDockerfile(name, port)
              [] type \in {"next", "nextjs"} -> generateNextDockerfile(name, port)
              [] type = "vue" -> generateVueDockerfile(name, port)
              [] type = "python" -> generatePythonDockerfile(name, port)
              [] type = "go" -> generateGoDockerfile(name, port)
              [] type = "rust" -> generateRustDockerfile(name, port)
              [] type = "php" -> generatePhpDockerfile(name, port)
              [] type = "java" -> generateJavaDockerfile(name, port)
              [] type = "dotnet" -> generateDotnetDockerfile(name, port)
              [] OTHER -> <<>>
    IN IF params.customDockerfile.def /\ params.customDockerfile.val # <<>>
       THEN [threw |-> FALSE, message |-> "", content |-> <<Val(params.customDockerfile.val)>>]
       ELSE IF type \in DockerfileTypes
       THEN [threw |-> FALSE, message |-> "", content |-> content]
       ELSE [threw |-> TRUE, message |-> "Unsupported application type: " \o type,
             content |-> <<>>]

\* `x || d` for an optional number: d when x is undefined or 0
OrPort(optPort, d) == IF optPort.def /\ optPort.val # 0 THEN optPort.val ELSE d

L_frontend == <<"-", "f", "r", "o", "n", "t", "e", "n", "d">>

L_backend == <<"-", "b", "a", "c", "k", "e", "n", "d">>

\* `ttl.sh/`
L_ttl == <<"t", "t", "l", ".", "s", "h", "/">>

\* `:1h`
L_1h == <<":", "1", "h">>

generateFrontendFiles(appName, frontend) ==
    CASE frontend.type = "react" ->
           <<MkFile("package.json", "frontend/package.json",
                    GeneratedText("generateReactPackageJson", <<appName>>)),
             MkFile("App.js", "frontend/src/App.js",
                    GeneratedText("generateReactAppJs", <<appName>>)),
             MkFile("index.html", "frontend/public/index.html",
                    GeneratedText("generateReactIndexHtml", <<appName>>))>>
      [] frontend.type = "vue" ->
           <<MkFile("package.json", "frontend/package.json",
                    GeneratedText("generateVuePackageJson", <<appName>>)),
             MkFile("App.vue", "frontend/src/App.vue",
                    GeneratedText("generateVueAppVue", <<appName>>))>>
      [] frontend.type = "next" ->
           <<MkFile("package.json", "frontend/package.json",
                    GeneratedText("generateNextPackageJson", <<appName>>)),
             MkFile("page.tsx", "frontend/app/page.tsx",
                    GeneratedText("generateNextPageTsx", <<appName>>))>>
      [] OTHER -> <<>>

generateBackendFiles(appName, backend) ==
    LET port == NumToStr(OrPort(backend.port, 8000))
    IN CASE backend.type = "node" ->
              <<MkFile("package.json", "backend/package.json",
                       GeneratedText("generateNodePackageJson", <<appName>>)),
                MkFile("app.js", "backend/app.js",
                       GeneratedText("generateNodeAppJs", <<appName, port>>))>>
         [] backend.type = "python" ->
              <<MkFile("requirements.txt", "backend/requirements.txt",
                       GeneratedText("generatePythonRequirements", <<appName>>)),
                MkFile("app.py", "backend/app.py",
                       GeneratedText("generatePythonAppPy", <<appName, port>>))>>
         [] backend.type = "go" ->
              <<MkFile("go.mod", "backend/go.mod",
                       GeneratedText("generateGoMod", <<appName>>)),
                MkFile("main.go", "backend/main.go",
                       GeneratedText("generateGoMainGo", <<appName, port>>))>>
         [] OTHER -> <<>>

generateDatabaseFiles(appName, database) ==
    CASE database.type = "postgres" ->
           <<MkFile("database.sql", "database/init.sql",
                    GeneratedText("generatePostgresInitSql", <<appName>>))>>
      [] database.type = "mysql" ->
           <<MkFile("database.sql", "database/init.sql",
                    GeneratedText("generateMysqlInitSql", <<appName>>))>>
      [] database.type = "mongodb" ->
           <<MkFile("database.js", "database/init.js",
                    GeneratedText("generateMongoInitJs", <<appName>>))>>
      [] OTHER -> <<>>

\* the Dockerfile of one tier: [threw, message, files]
tierDockerfile(fileName, path, name, tier, defaultPort) ==
    LET d == generateDockerfile([name |-> name, type |-> tier.type,
                                 port |-> Some(OrPort(tier.port, defaultPort)),
                                 customDockerfile |-> None])
    IN [threw |-> d.threw, message |-> d.message,
        files |-> IF d.threw THEN <<>> ELSE <<MkFile(fileName, path, d.content)>>]

\* generateDockerfilesForFullStack, were the backend's port left to the default of
\* generateDockerfile
generateDockerfilesForFullStack_DefaultPort(appName, frontend, backend) ==
    LET f == IF frontend.def
             THEN tierDockerfile("Dockerfile.frontend", "frontend/Dockerfile",
                                 appName \o L_frontend, frontend.val, 3000)
             ELSE [threw |-> FALSE, message |-> "", files |-> <<>>]
        b == IF backend.def
             THEN tierDockerfile("Dockerfile.backend", "backend/Dockerfile",
                                 appName \o L_backend, backend.val, 3000)
             ELSE [threw |-> FALSE, message |-> "", files |-> <<>>]
    IN IF f.threw THEN f
       ELSE IF b.threw THEN b
       ELSE [threw |-> FALSE, message |-> "", files |-> f.files \o b.files]

\* generateDockerfilesForFullStack: the frontend's Dockerfile, then the backend's;
\* the first Dockerfile that cannot be generated ends it
generateDockerfilesForFullStack(appName, frontend, backend) ==
    LET f == IF frontend.def
             THEN tierDockerfile("Dockerfile.frontend", "frontend/Dockerfile",
                                 appName \o L_frontend, frontend.val, 3000)
             ELSE [threw |-> FALSE, message |-> "", files |-> <<>>]
        b == IF backend.def
             THEN tierDockerfile("Dockerfile.backend", "backend/Dockerfile",
                                 appName \o L_backend, backend.val, 8000)
             ELSE [threw |-> FALSE, message |-> "", files |-> <<>>]
    IN IF f.threw THEN f
       ELSE IF b.threw THEN b
       ELSE [threw |-> FALSE, message |-> "", files |-> f.files \o b.files]

\* the pods generateFullStack puts in nexlayer.yaml
fullStackPods(appName, frontend, backend) ==
    (IF frontend.def
     THEN <<MkPod(appName \o L_frontend, L_ttl \o appName \o L_frontend \o L_1h,
                  Some(<<OrPort(frontend.val.port, 3000)>>), None, None)>>
     ELSE <<>>)
    \o
    (IF backend.def
     THEN <<MkPod(appName \o L_backend, L_ttl \o appName \o L_backend \o L_1h,
                  Some(<<OrPort(backend.val.port, 8000)>>), None, None)>>
     ELSE <<>>)

\* one entry of instructions: the template literal and the type interpolated in it
Instruction(template, type) == [template |-> template, type |-> type]

\* generateFullStack(params): [threw, message, files, pods, pieces, instructions]
generateFullStack(params) ==
    LET appName == params.appName
        frontend == params.frontend
        backend == params.backend
        frontendFiles ==
            IF frontend.def THEN generateFrontendFiles(appName, frontend.val) ELSE <<>>
        backendFiles ==
            IF backend.def THEN generateBackendFiles(appName, backend.val) ELSE <<>>
        dbFiles ==
            IF params.database.def THEN generateDatabaseFiles(appName, params.database.val)
            ELSE <<>>
        openaiFiles ==
            IF params.openai.def
            THEN <<MkFile("openai-config.js", "config/openai.js",
                          GeneratedText("generateOpenAIConfig",
                              <<appName,
                                IF params.openai.val.apiKey # <<>>
                                THEN params.openai.val.apiKey
                                ELSE <<"y", "o", "u", "r", "-", "a", "p", "i", "-", "k",
                                       "e", "y", "-", "h", "e", "r", "e">>>>))>>
            ELSE <<>>
        dockerfiles == generateDockerfilesForFullStack(appName, frontend, backend)
        pods == fullStackPods(appName, frontend, backend)
        yamlParams == [applicationName |-> appName, pods |-> pods]
        instructions ==
            (IF frontend.def
             THEN <<Instruction("Frontend (${frontend.type}) files generated in /frontend directory",
                                frontend.val.type)>>
             ELSE <<>>)
            \o (IF backend.def
                THEN <<Instruction("Backend (${backend.type}) files generated in /backend directory",
                                   backend.val.type)>>
                ELSE <<>>)
            \o (IF params.database.def
                THEN <<Instruction("Database (${database.type}) configuration generated",
                                   params.database.val.type)>>
                ELSE <<>>)
            \o (IF params.openai.def
                THEN <<Instruction("OpenAI integration configured", "")>>
                ELSE <<>>)
            \o <<Instruction("nexlayer.yaml generated for deployment", "")>>
    IN IF dockerfiles.threw
       THEN [threw |-> TRUE, message |-> dockerfiles.message, files |-> <<>>,
             pods |-> <<>>, pieces |-> <<>>, instructions |-> <<>>]
       ELSE [threw |-> FALSE, message |-> "", instructions |-> instructions,
             files |-> frontendFiles \o backendFiles \o dbFiles \o openaiFiles
                         \o dockerfiles.files
                         \o <<MkFile("nexlayer.yaml", "nexlayer.yaml",
                                     <<Val(generateNexlayerYaml(yamlParams))>>)>>,
             pods |-> pods,
             pieces |-> generateNexlayerYamlPieces(yamlParams)]

(***************************************************************************)
(* Tool generate-full-stack-project.                                       *)
(***************************************************************************)
ToolGenerateFullStackProject(params) ==
    LET result == generateFullStack(params)
        done == [NoCall EXCEPT
                   !.op = "generate-full-stack-project",
                   !.applicationName = params.appName,
                   !.contents = 1]
    IN /\ call = NoCall
       /\ call' =
            IF result.threw
            THEN [done EXCEPT
                    !.template = "Failed to generate full-stack project: ${error.message}",
                    !.error = result.message]
            ELSE [done EXCEPT
                    !.template = "Generated full-stack project \"${appName}\":",
                    !.pods = result.pods,
                    !.frontend = params.frontend,
                    !.backend = params.backend,
                    !.pieces = result.pieces,
                    !.yaml = Flatten(result.pieces),
                    !.files = result.files,
                    !.instructions = result.instructions]
       /\ UNCHANGED <<nexlayerClient, inflight, cwd, command>>

(***************************************************************************)
(* Tool generate-dockerfile.                                               *)
(***************************************************************************)
ToolGenerateDockerfile(params) ==
    LET result == generateDockerfile(params)
        done == [NoCall EXCEPT
                   !.op = "generate-dockerfile",
                   !.applicationName = params.name,
                   !.params = params,
                   !.contents = 1]
    IN /\ call = NoCall
       /\ call' =
            IF result.threw
            THEN [done EXCEPT
                    !.template = "Failed to generate Dockerfile: ${error.message}",
                    !.error = result.message]
            ELSE [done EXCEPT
                    !.template = "Generated Dockerfile for ${name} (${type}):",
                    !.files = <<MkFile("Dockerfile", "Dockerfile", result.content)>>]
       /\ UNCHANGED <<nexlayerClient, inflight, cwd, command>>

(***************************************************************************)
(* executeCommand(command, args).  proc is what becomes of the spawned     *)
(* process.  The promise is resolved by the 'close' event only; a process  *)
(* that cannot be started emits 'error', to which nothing listens, so the  *)
(* event is thrown as an uncaught exception and the promise stays pending. *)
(***************************************************************************)
Procs ==
    {[started |-> TRUE, code |-> 0, stdout |-> "out", stderr |-> ""],
     [started |-> TRUE, code |-> 0, stdout |-> "out", stderr |-> "warning"],
     [started |-> TRUE, code |-> 1, stdout |-> "", stderr |-> ""],
     [started |-> TRUE, code |-> 1, stdout |-> "", stderr |-> "denied"],
     [started |-> FALSE, code |-> 0, stdout |-> "", stderr |-> ""]}

executeCommand(proc) ==
    IF ~proc.started
    THEN [settled |-> FALSE, output |-> "", error |-> "",
          uncaught |-> "spawn docker ENOENT"]
    ELSE [settled |-> TRUE, output |-> proc.stdout,
          error |-> IF proc.code # 0
                    THEN (IF proc.stderr # "" THEN proc.stderr
                          ELSE "Process exited with code " \o ToString(proc.code))
                    ELSE proc.stderr,
          uncaught |-> ""]

\* docker build, then docker push: [settled, uncaught, threw, message, ran], ran being
\* the number of commands started
buildAndPush(build, push) ==
    LET buildResult == executeCommand(build)
        pushResult == executeCommand(push)
    IN IF ~buildResult.settled
       THEN [settled |-> FALSE, uncaught |-> buildResult.uncaught, threw |-> FALSE,
             message |-> "", ran |-> 1]
       ELSE IF buildResult.error # ""
       THEN [settled |-> TRUE, uncaught |-> "", threw |-> TRUE,
             message |-> "Docker build failed: " \o buildResult.error, ran |-> 1]
       ELSE IF ~pushResult.settled
       THEN [settled |-> FALSE, uncaught |-> pushResult.uncaught, threw |-> FALSE,
             message |-> "", ran |-> 2]
       ELSE IF pushResult.error # ""
       THEN [settled |-> TRUE, uncaught |-> "", threw |-> TRUE,
             message |-> "Docker push failed: " \o pushResult.error, ran |-> 2]
       ELSE [settled |-> TRUE, uncaught |-> "", threw |-> FALSE, message |-> "", ran |-> 2]

\* the docker commands started: the subcommand, the image name among its arguments and
\* what became of the process
dockerCommands(image, build, push) ==
    LET all == <<[args |-> "build", image |-> image, proc |-> build],
                 [args |-> "push", image |-> image, proc |-> push]>>
    IN SubSeq(all, 1, buildAndPush(build, push).ran)

(***************************************************************************)
(* Tool build-and-push-docker.                                             *)
(***************************************************************************)
ToolBuildAndPushDocker(imageName, registry, tag, build, push) ==
    LET fullImageName ==
            (IF registry.def THEN registry.val \o <<"/">> ELSE L_ttl) \o imageName
              \o (IF tag.def THEN <<":">> \o tag.val ELSE L_1h)
        docker == buildAndPush(build, push)
        done == [NoCall EXCEPT
                   !.op = "build-and-push-docker",
                   !.applicationName = imageName,
                   !.commands = dockerCommands(fullImageName, build, push)]
    IN /\ call = NoCall
       /\ call' =
            IF ~docker.settled
            THEN [done EXCEPT !.uncaught = docker.uncaught]
            ELSE IF docker.threw
            THEN [done EXCEPT
                    !.template = "Failed to build and push Docker image: ${error.message}",
                    !.error = docker.message,
                    !.contents = 1]
            ELSE [done EXCEPT
                    !.template = "Successfully built and pushed Docker image: ${fullImageName}",
                    !.args = <<fullImageName>>,
                    !.contents = 1]
       /\ UNCHANGED <<nexlayerClient, inflight, cwd, command>>

(***************************************************************************)
(* The working directory.                                                  *)
(***************************************************************************)
\* fs.access(path) succeeds
Exists(dir, path) == \E f \in dir.files : f.path = path

\* fs.writeFile(path, content) in a writable directory: the file is created, or its
\* content replaced
WriteFile(dir, path, content) ==
    [dir EXCEPT !.files = {f \in @ : f.path # path} \cup {[path |-> path, content |-> content]}]

\* analyzeProject(projectPath): [threw, message, type, port].  Without a package.json
\* that parses to an object the directory is listed, which throws when it cannot be
analyzeProject(dir) ==
    LET found(type, port) == [threw |-> FALSE, message |-> "", type |-> type, port |-> port]
        dependencies == dir.packageJson.dependencies
    IN IF dir.packageJson.def
       THEN IF "react" \in dependencies /\ "react-scripts" \in dependencies
            THEN found("react", 3000)
            ELSE IF "next" \in dependencies
            THEN found("next", 3000)
            ELSE IF "vue" \in dependencies /\ "@vue/cli-service" \in dependencies
            THEN found("vue", 3000)
            ELSE IF "express" \in dependencies \/ dir.packageJson.startsNode
            THEN found("node", 3000)
            ELSE found("node", 3000)
       ELSE IF ~dir.readable
            THEN [threw |-> TRUE, message |-> "EACCES: permission denied, scandir",
                  type |-> "", port |-> 0]
            ELSE IF "py" \in dir.sources
            THEN found("python", 8000)
            ELSE IF "go" \in dir.sources
            THEN found("go", 8080)
            ELSE found("node", 3000)

\* mapProjectTypeToDockerType, were a React project given the type of its framework
\* family without a template
mapProjectTypeToDockerType_Framework(projectType) ==
    IF projectType = "react" THEN "angular"
    ELSE IF projectType \in {"next", "vue", "node", "python", "go"}
    THEN projectType ELSE "node"

mapProjectTypeToDockerType(projectType) ==
    IF projectType \in {"react", "next", "vue", "node", "python", "go"}
    THEN projectType ELSE "node"

\* path.basename(process.cwd())
Cwd == <<"w">>

\* the nginx.conf smart-deploy writes for a React project
nginxConfig(port) == <<Lit("server {\n    listen "), Val(NumToStr(port)), Lit(";\n ...}")>>

\* smart-deploy, from the existence check of the Dockerfile on: the Dockerfile (and
\* nginx.conf) it writes when it found none.  [threw, message, dir, steps]
smartDockerfile(dir, dockerfileExists, finalAppName, analysis) ==
    LET port == IF analysis.port # 0 THEN analysis.port ELSE 3000
        dockerfile ==
            generateDockerfile([name |-> finalAppName,
                                type |-> mapProjectTypeToDockerType(analysis.type),
                                port |-> Some(port), customDockerfile |-> None])
        written == WriteFile(dir, "Dockerfile", dockerfile.content)
    IN IF dockerfileExists
       THEN [threw |-> FALSE, message |-> "", dir |-> dir, steps |-> <<>>]
       ELSE IF dockerfile.threw
       THEN [threw |-> TRUE, message |-> dockerfile.message, dir |-> dir, steps |-> <<>>]
       ELSE IF ~dir.writable
       THEN [threw |-> TRUE, message |-> "EACCES: permission denied, open", dir |-> dir,
             steps |-> <<"writeFile Dockerfile">>]
       ELSE IF analysis.type = "react"
       THEN [threw |-> FALSE, message |-> "",
             dir |-> WriteFile(written, "nginx.conf", nginxConfig(port)),
             steps |-> <<"writeFile Dockerfile", "writeFile nginx.conf">>]
       ELSE [threw |-> FALSE, message |-> "", dir |-> written,
             steps |-> <<"writeFile Dockerfile">>]

\* the handler goes on after docker build and docker push, were their errors not looked at
dockerPassed_Unchecked(docker) == docker.settled

\* the handler goes on after docker build and docker push
dockerPassed(docker) == docker.settled /\ ~docker.threw

(***************************************************************************)
(* Tool smart-deploy.  steps lists what the handler started, in order.     *)
(***************************************************************************)
\* the app name, defaulted to the name of the working directory
smartAppName(optAppName) ==
    IF optAppName.def /\ optAppName.val # <<>> THEN optAppName.val ELSE Cwd

\* the handler's result so far, the arguments of the invocation in it
smartStarted(finalAppName, sessionToken, dir) ==
    [NoCall EXCEPT
       !.op = "smart-deploy",
       !.applicationName = finalAppName,
       !.sessionToken = sessionToken,
       !.dir = dir]

\* the handler's result up to the Dockerfile
smartReady(done, analysis, steps) ==
    [done EXCEPT
       !.analysis = analysis,
       !.steps = <<"analyzeProject", "access Dockerfile">> \o steps]

\* the catch branch
smartFailed(c, message) ==
    [c EXCEPT !.template = "Failed to smart deploy: ${error.message}", !.error = message,
              !.contents = 1]

\* smart-deploy from docker build on, in the directory dir: [call, dir, client]
smartDeployRest(ready, dir, analysis, build, push, resp, cached) ==
    LET finalAppName == ready.applicationName
        sessionToken == ready.sessionToken
        imageName == L_ttl \o finalAppName \o L_1h
        port == IF analysis.port # 0 THEN analysis.port ELSE 3000
        docker == buildAndPush(build, push)
        commands == dockerCommands(imageName, build, push)
        pods == <<MkPod(finalAppName, imageName, Some(<<port>>), None, None)>>
        yamlParams == [applicationName |-> finalAppName, pods |-> pods]
        yaml == generateNexlayerYaml(yamlParams)
        deploys == sessionToken.def /\ sessionToken.val # ""
        client == getClient(cached, sessionToken)
        result == startUserDeployment([yamlContent |-> yaml,
                                       sessionToken |-> sessionToken], resp)
        ran == [ready EXCEPT
                  !.steps = @ \o [i \in 1..Len(commands) |-> "docker " \o commands[i].args],
                  !.commands = commands]
        rendered == [ran EXCEPT
                       !.steps = Append(@, "writeFile nexlayer.yaml"),
                       !.pods = pods,
                       !.pieces = generateNexlayerYamlPieces(yamlParams),
                       !.yaml = yaml]
        saved == WriteFile(dir, "nexlayer.yaml", <<Val(yaml)>>)
        completed ==
            [rendered EXCEPT
               !.template = "Smart deployment completed for \"${finalAppName}\"!",
               !.contents = 1]
        sent == [rendered EXCEPT
                   !.steps = Append(@, "startUserDeployment"),
                   !.self = client,
                   !.requests = result.requests,
                   !.response = [kind |-> resp.kind, error |-> resp.error]]
    IN IF ~dockerPassed(docker)
       THEN [call |-> IF ~docker.settled THEN [ran EXCEPT !.uncaught = docker.uncaught]
                      ELSE smartFailed(ran, docker.message),
             dir |-> dir, client |-> cached]
       ELSE IF ~dir.writable
       THEN [call |-> smartFailed(rendered, "EACCES: permission denied, open"),
             dir |-> dir, client |-> cached]
       ELSE IF ~deploys
       THEN [call |-> completed, dir |-> saved, client |-> cached]
       ELSE [call |-> IF result.threw THEN smartFailed(sent, result.message)
                      ELSE [sent EXCEPT
                              !.template = completed.template,
                              !.contents = 1,
                              !.data = result.data],
             dir |-> saved, client |-> client]

\* the whole handler, run in the directory dir without another invocation or program
\* touching the directory meanwhile
ToolSmartDeploy(optAppName, sessionToken, dir, build, push, resp) ==
    LET finalAppName == smartAppName(optAppName)
        analysis == analyzeProject(dir)
        prepared == smartDockerfile(dir, Exists(dir, "Dockerfile"), finalAppName, analysis)
        done == smartStarted(finalAppName, sessionToken, dir)
        ready == smartReady(done, analysis, prepared.steps)
        rest == smartDeployRest(ready, prepared.dir, analysis, build, push, resp,
                                nexlayerClient)
    IN /\ call = NoCall
       /\ cwd = NoDir
       /\ IF analysis.threw
          THEN /\ call' = smartFailed([done EXCEPT !.steps = <<"analyzeProject">>],
                                      analysis.message)
               /\ cwd' = dir
               /\ UNCHANGED nexlayerClient
          ELSE IF prepared.threw
          THEN /\ call' = smartFailed(ready, prepared.message)
               /\ cwd' = prepared.dir
               /\ UNCHANGED nexlayerClient
          ELSE /\ call' = rest.call
               /\ cwd' = rest.dir
               /\ nexlayerClient' = rest.client
       /\ UNCHANGED <<inflight, command>>

(***************************************************************************)
(* Tool generate-files-locally, run with the directory dir as outputDir.   *)
(* Paths are relative to it; `target` stands for the project's directory   *)
(* path.resolve(outputDir, projectName).                                   *)
(***************************************************************************)
\* fs.mkdir(path, {recursive: true}) in a writable directory
Mkdir(dir, path) == [dir EXCEPT !.dirs = @ \cup {path}]

\* path.dirname of the paths of the generated files
Dirname(path) ==
    CASE path \in {"frontend/package.json", "frontend/Dockerfile"} -> "frontend"
      [] path = "frontend/src/App.js" -> "frontend/src"
      [] path = "frontend/src/App.vue" -> "frontend/src"
      [] path = "frontend/public/index.html" -> "frontend/public"
      [] path = "frontend/app/page.tsx" -> "frontend/app"
      [] path \in {"backend/package.json", "backend/app.js", "backend/Dockerfile",
                   "backend/requirements.txt", "backend/app.py", "backend/go.mod",
                   "backend/main.go"} -> "backend"
      [] path \in {"database/init.sql", "database/init.js"} -> "database"
      [] path = "config/openai.js" -> "config"
      [] OTHER -> "."

\* for (const file of files) { mkdir(dirname); writeFile }
RECURSIVE WriteAll(_, _)
WriteAll(dir, files) ==
    IF files = <<>> THEN dir
    ELSE LET file == files[1]
             made == Mkdir(dir, IF Dirname(file.path) = "." THEN "target"
                                ELSE "target/" \o Dirname(file.path))
         IN WriteAll(WriteFile(made, "target/" \o file.path, file.content), Tail(files))

\* the files of the react and next cases, in the order they are written
localProjectFiles(projectType, projectName) ==
    LET dockerfile == generateDockerfile([name |-> projectName, type |-> projectType,
                                          port |-> Some(3000), customDockerfile |-> None])
    IN IF projectType = "react"
       THEN <<MkFile("package.json", "package.json",
                     GeneratedText("generateReactHelloWorldFiles.packageJson", <<projectName>>)),
              MkFile("App.js", "src/App.js",
                     GeneratedText("generateReactHelloWorldFiles.appJs", <<projectName>>)),
              MkFile("index.html", "public/index.html",
                     GeneratedText("generateReactHelloWorldFiles.indexHtml", <<projectName>>)),
              MkFile("Dockerfile", "Dockerfile", dockerfile.content),
              MkFile("nginx.conf", "nginx.conf", nginxConfig(3000))>>
       ELSE <<MkFile("package.json", "package.json",
                     GeneratedText("nextPackageJson", <<projectName>>)),
              MkFile("page.tsx", "app/page.tsx",
                     GeneratedText("nextPage", <<projectName>>)),
              MkFile("Dockerfile", "Dockerfile", dockerfile.content)>>

\* the directories of the react and next cases
localProjectDirs(projectType) ==
    IF projectType = "react" THEN {"target/src", "target/public"} ELSE {"target/app"}

ToolGenerateFilesLocally(projectType, projectName, dir) ==
    LET done == [NoCall EXCEPT
                   !.op = "generate-files-locally",
                   !.applicationName = projectName,
                   !.args = <<projectType>>,
                   !.dir = dir,
                   !.contents = 1]
        failed(message) ==
            [done EXCEPT !.template = "Failed to generate files locally: ${error.message}",
                         !.error = message]
        succeeded(files) ==
            [done EXCEPT
               !.template = "Successfully generated ${projectType} project \"${projectName}\"!",
               !.files = files]
        targetDir == Mkdir(dir, "target")
        fullStack ==
            generateFullStack([appName |-> projectName,
                               frontend |-> Some([type |-> "react", port |-> Some(3000)]),
                               backend |-> Some([type |-> "node", port |-> Some(8000)]),
                               database |-> None, openai |-> None])
        files == IF projectType = "fullstack" THEN fullStack.files
                 ELSE localProjectFiles(projectType, projectName)
    IN /\ call = NoCall
       /\ cwd = NoDir
       /\ IF ~dir.writable /\ "target" \notin dir.dirs
          THEN /\ call' = failed("EACCES: permission denied, mkdir")
               /\ cwd' = dir
          ELSE IF projectType \notin {"react", "next", "fullstack"}
          THEN /\ call' = failed("Unsupported project type: " \o projectType)
               /\ cwd' = targetDir
          ELSE IF projectType = "fullstack" /\ fullStack.threw
          THEN /\ call' = failed(fullStack.message)
               /\ cwd' = targetDir
          ELSE IF ~dir.writable
          THEN /\ call' = failed("EACCES: permission denied, open")
               /\ cwd' = targetDir
          ELSE /\ call' = succeeded(files)
               /\ cwd' = WriteAll(targetDir, files)
       /\ UNCHANGED <<nexlayerClient, inflight, command>>

(***************************************************************************)
(* The result of the operation is handed to its caller; the arguments and  *)
(* locals of the invocation are gone, the cached client stays.  The        *)
(* working directory is its owner's again: what the next invocation finds  *)
(* there is drawn afresh.                                                  *)
(***************************************************************************)
Return ==
    /\ call # NoCall
    /\ call' = NoCall
    /\ cwd' = NoDir
    /\ UNCHANGED <<nexlayerClient, inflight, command>>

DeployShapes == {sh \in PodShapes : ~sh[3].def}

OptPodNames == {None, Some(<<"a">>)}

LocalFiles ==
    {[readable |-> FALSE, content |-> <<>>],
     [readable |-> TRUE,
      content |-> generateNexlayerYaml([applicationName |-> <<"x">>, pods |-> <<>>])]}

Actions == {"add", "remove", "list"}

\* a secret without a mount path
SecretNoPath == [Secret1 EXCEPT !.mountPath = <<>>]

\* the applications whose manifests are sent to validate-yaml: a valid one, and one
\* with two problems (a port out of range and a secret without a mount path)
ValidateInputs ==
    {[applicationName |-> <<"x">>,
      pods |-> <<MkPod(<<"a">>, ImageN, Some(<<80>>), None, None)>>],
     [applicationName |-> <<"x">>,
      pods |-> <<MkPod(<<"a">>, ImageN, Some(<<0>>), None, Some(<<SecretNoPath>>))>>]}

OptPorts == {[def |-> FALSE, val |-> 0], [def |-> TRUE, val |-> 0],
             [def |-> TRUE, val |-> 8080]}

Tiers(types) == {None} \cup {Some([type |-> t, port |-> p]) : t \in types, p \in OptPorts}

FullStackParams ==
    {[appName |-> <<"x">>, frontend |-> f, backend |-> b, database |-> d[1],
      openai |-> d[2]] :
        f \in Tiers({"react", "vue", "next", "nextjs", "angular"}),
        b \in Tiers({"node", "python", "go", "rust"}),
        d \in {<<None, None>>,
               <<Some([type |-> "postgres"]), Some([enabled |-> TRUE, apiKey |-> <<>>])>>}}

DockerfileParams ==
    {[name |-> <<"x">>, type |-> t, port |-> p, customDockerfile |-> c] :
        t \in {"node", "python", "go", "rust", "nextjs", "react", "vue", "angular", "next",
               "php", "java", "dotnet", "custom"},
        p \in OptPorts,
        c \in {None, Some(<<>>), Some(<<"F">>)}}

\* package.json files with the dependencies analyzeProject looks for
PackageJsons ==
    {[def |-> TRUE, dependencies |-> d, startsNode |-> FALSE] :
        d \in {{}, {"react", "react-scripts"}, {"react", "react-scripts", "next"},
               {"react", "next"}, {"next", "vue", "@vue/cli-service"},
               {"vue", "@vue/cli-service"}, {"vue"}, {"express"}}}
      \cup {[def |-> TRUE, dependencies |-> {}, startsNode |-> TRUE]}

MkDir(readable, writable, packageJson, sources, files) ==
    [known |-> TRUE, readable |-> readable, writable |-> writable,
     packageJson |-> packageJson, sources |-> sources, dirs |-> {}, files |-> files]

\* a Dockerfile of the user's
UserDockerfile == [path |-> "Dockerfile", content |-> <<Val(<<"F">>)>>]

\* the directories smart-deploy is run in: with and without a Dockerfile, with each
\* package.json or with source files only, and one that cannot be listed or written
ProjectDirs ==
    {MkDir(TRUE, TRUE, p, {}, fs) : p \in PackageJsons, fs \in {{}, {UserDockerfile}}}
      \cup {MkDir(TRUE, TRUE, NoPackageJson, src, fs) :
               src \in SUBSET {"py", "go"}, fs \in {{}, {UserDockerfile}}}
      \cup {MkDir(FALSE, FALSE, p, {}, fs) :
               p \in {NoPackageJson,
                      [def |-> TRUE, dependencies |-> {"react", "react-scripts"},
                       startsNode |-> FALSE]},
               fs \in {{}, {UserDockerfile}}}

\* the output directories of generate-files-locally: an empty one, one that holds
\* the project's directory already, and one that cannot be written to
OutputDirs ==
    {MkDir(TRUE, TRUE, NoPackageJson, {}, {}),
     [MkDir(TRUE, TRUE, NoPackageJson, {}, {}) EXCEPT !.dirs = {"target"}],
     MkDir(TRUE, FALSE, NoPackageJson, {}, {})}

ProjectTypes == {"react", "next", "fullstack", "vue", "node", "python"}

\* the registry and the tag given to build-and-push-docker
ImageRefs == {<<None, None>>, <<Some(<<"r">>), Some(<<"v">>)>>}

\* docker push is run after a docker build that reported no error
PushProcs(build) ==
    IF executeCommand(build).settled /\ executeCommand(build).error = ""
    THEN Procs ELSE {build}

Next ==
    \/ \E self \in {NewClient([sessionToken |-> NoneStr])}
                        \cup (IF nexlayerClient.created THEN {nexlayerClient} ELSE {}),
          applicationName \in AppNames, pods \in PodLists :
            ClientGenerateYaml(self, applicationName, pods)
    \/ \E applicationName \in AppNames, optPods \in {None} \cup {Some(p) : p \in PodLists} :
            ToolGenerateNexlayerYaml(applicationName, optPods)
    \/ \E name \in AppNames, sh \in DeployShapes, sessionToken \in OptTokens,
          resp \in ApiResponses :
            ToolDeployApplication(name, ImageN, sh[1], sh[2], sessionToken, resp)
    \/ \E optName \in OptPodNames, optImage \in {None, Some(ImageN)},
          sessionToken \in OptTokens, resp \in ApiResponses :
            ToolAddDatabase(optName, optImage, <<"u">>, <<"p">>, <<"d">>, sessionToken, resp)
    \/ \E optName \in OptPodNames, sessionToken \in OptTokens, resp \in ApiResponses :
            ToolAddPrismaBackend(optName, ImageN, <<"u">>, sessionToken, resp)
    \/ \E optName \in OptPodNames, sessionToken \in OptTokens, resp \in ApiResponses :
            ToolAddOpenAIIntegration(optName, ImageN, <<"k">>, sessionToken, resp)
    \/ \E appName \in AppNames, optImage \in {None, Some(ImageM)},
          sessionToken \in OptTokens, resp \in ApiResponses :
            ToolCreateFullStack(appName, ImageN, ImageM, optImage, sessionToken, resp)
    \/ \E file \in LocalFiles, sessionToken \in OptTokens, resp \in ApiResponses :
            ToolDeployLocalYaml(file, sessionToken, resp)
    \/ \E sessionToken \in OptTokens, applicationName \in AppNames, resp \in ApiResponses :
            ToolExtendDeployment(sessionToken, applicationName, resp)
    \/ \E sessionToken \in OptTokens, applicationName \in AppNames, resp \in ApiResponses :
            ToolClaimDeployment(sessionToken, applicationName, resp)
    \/ \E sessionToken \in OptTokens, applicationName \in AppNames, action \in Actions,
          resp \in VoidResponses :
            ToolManageReservation(sessionToken, applicationName, action, resp)
    \/ \E sessionToken \in OptTokens, resp \in ReservationResponses :
            ToolGetReservations(sessionToken, resp)
    \/ \E input \in ValidateInputs, resp \in ValidationResponses :
            ToolValidateYaml(input.applicationName, input.pods,
                             generateYaml(NewClient([sessionToken |-> NoneStr]),
                                          input.applicationName, input.pods),
                             resp)
    \/ \E resp \in SchemaResponses : ToolGetSchema(resp)
    \/ \E params \in DockerfileParams : ToolGenerateDockerfile(params)
    \/ \E params \in FullStackParams : ToolGenerateFullStackProject(params)
    \/ \E image \in ImageRefs, build \in Procs : \E push \in PushProcs(build) :
            ToolBuildAndPushDocker(<<"x">>, image[1], image[2], build, push)
    \/ \E optAppName \in {None, Some(<<"x">>)}, sessionToken \in OptTokens,
          dir \in ProjectDirs, build \in Procs :
          \E push \in PushProcs(build),
             resp \in (IF sessionToken.def THEN ApiResponses
                       ELSE {r \in ApiResponses : r.kind = "rejected"}) :
            ToolSmartDeploy(optAppName, sessionToken, dir, build, push, resp)
    \/ \E projectType \in ProjectTypes, dir \in OutputDirs :
            ToolGenerateFilesLocally(projectType, <<"x">>, dir)
    \/ Return

Spec == Init /\ [][Next]_vars

(***************************************************************************)
(* deploy-application run by several callers at once.  A handler runs      *)
(* without interruption up to its await: DeployBegin is the handler up to  *)
(* the request it sends, DeployEnd is the rest, run when the response      *)
(* arrives.  The steps of different invocations interleave freely.         *)
(***************************************************************************)
DeployBegin(i, name, image, optPorts, optVars, sessionToken) ==
    LET servicePorts == IF optPorts.def THEN optPorts.val ELSE <<DefaultServicePort>>
        vs == IF optVars.def THEN optVars.val ELSE <<>>
        client == getClient(nexlayerClient, sessionToken)
        pods == <<MkPod(name, image, Some(servicePorts), Some(vs), None)>>
        yamlContent == generateYaml(client, name, pods)
        params == [yamlContent |-> yamlContent, sessionToken |-> sessionToken]
    IN /\ ~inflight[i].active
       /\ nexlayerClient' = client
       /\ inflight' = [inflight EXCEPT
                         ![i] = [NoInvocation EXCEPT
                                   !.active = TRUE, !.name = name, !.image = image,
                                   !.servicePorts = servicePorts, !.vars = vs,
                                   !.sessionToken = sessionToken, !.pods = pods,
                                   !.requests = <<startUserDeploymentRequest(params)>>]]
       /\ UNCHANGED <<call, cwd, command>>

DeployEnd(i, resp) ==
    LET inv == inflight[i]
        params == [yamlContent |-> inv.requests[1].body, sessionToken |-> inv.sessionToken]
        result == [startUserDeployment(params, resp) EXCEPT !.requests = inv.requests]
        done == [NoCall EXCEPT
                   !.op = "deploy-application",
                   !.applicationName = inv.name,
                   !.pods = inv.pods,
                   !.sessionToken = inv.sessionToken,
                   !.self = nexlayerClient,
                   !.yaml = inv.requests[1].body,
                   !.response = [kind |-> resp.kind, error |-> resp.error],
                   !.data = IF result.threw THEN NoData ELSE result.data]
    IN /\ inv.active
       /\ call' = handlerResult(done, result,
                                "Successfully deployed application \"${name}\"!",
                                "Failed to deploy application: ${error.message}")
       /\ inflight' = [inflight EXCEPT ![i] = NoInvocation]
       /\ UNCHANGED <<nexlayerClient, cwd, command>>

\* the parameters of the concurrent invocations
ConcurrentShapes == {<<None, None>>, <<Some(<<80>>), Some(<<VarA>>)>>}

ConcurrentResponses == {r \in ApiResponses : r.data.status # "deploying"}

NextConcurrent ==
    \/ \E i \in Invocations, name \in AppNames, sh \in ConcurrentShapes,
          sessionToken \in {Some(t) : t \in Tokens} :
            DeployBegin(i, name, ImageN, sh[1], sh[2], sessionToken)
    \/ \E i \in Invocations, resp \in ConcurrentResponses : DeployEnd(i, resp)

SpecConcurrent == Init /\ [][NextConcurrent]_vars

(***************************************************************************)
(* smart-deploy run by several callers at once in one working directory,   *)
(* which other programs write to as well.  SmartCheck is the handler up to *)
(* the answer of fs.access, SmartPrepare the writing of the Dockerfile,    *)
(* SmartFinish the rest; the steps of different invocations interleave.    *)
(***************************************************************************)
SmartCheck(i, optAppName, sessionToken) ==
    LET finalAppName == smartAppName(optAppName)
        analysis == analyzeProject(cwd)
        done == smartStarted(finalAppName, sessionToken, cwd)
    IN /\ ~inflight[i].active
       /\ IF analysis.threw
          THEN /\ call' = smartFailed([done EXCEPT !.steps = <<"analyzeProject">>],
                                      analysis.message)
               /\ UNCHANGED inflight
          ELSE /\ inflight' = [inflight EXCEPT
                                 ![i] = [NoInvocation EXCEPT
                                           !.active = TRUE, !.pc = "checked",
                                           !.name = finalAppName,
                                           !.sessionToken = sessionToken,
                                           !.analysis = analysis,
                                           !.dockerfileExists = Exists(cwd, "Dockerfile")]]
               /\ UNCHANGED call
       /\ UNCHANGED <<nexlayerClient, cwd, command>>

SmartPrepare(i) ==
    LET inv == inflight[i]
        prepared == smartDockerfile(cwd, inv.dockerfileExists, inv.name, inv.analysis)
        done == smartStarted(inv.name, inv.sessionToken, cwd)
    IN /\ inv.active /\ inv.pc = "checked"
       /\ cwd' = prepared.dir
       /\ IF prepared.threw
          THEN /\ call' = smartFailed(smartReady(done, inv.analysis, prepared.steps),
                                      prepared.message)
               /\ inflight' = [inflight EXCEPT ![i] = NoInvocation]
          ELSE /\ inflight' = [inflight EXCEPT ![i].pc = "prepared"]
               /\ UNCHANGED call
       /\ UNCHANGED <<nexlayerClient, command>>

SmartFinish(i, build, push, resp) ==
    LET inv == inflight[i]
        ready == smartReady(smartStarted(inv.name, inv.sessionToken, cwd), inv.analysis,
                            IF inv.dockerfileExists THEN <<>>
                            ELSE <<"writeFile Dockerfile">>)
        rest == smartDeployRest(ready, cwd, inv.analysis, build, push, resp, nexlayerClient)
    IN /\ inv.active /\ inv.pc = "prepared"
       /\ call' = rest.call
       /\ cwd' = rest.dir
       /\ nexlayerClient' = rest.client
       /\ inflight' = [inflight EXCEPT ![i] = NoInvocation]
       /\ UNCHANGED command

\* another program creates a Dockerfile in the directory
OtherProgramWrites ==
    /\ ~Exists(cwd, "Dockerfile")
    /\ cwd.writable
    /\ cwd' = WriteFile(cwd, "Dockerfile", UserDockerfile.content)
    /\ UNCHANGED <<nexlayerClient, call, inflight, command>>

\* the server is started in a directory of a Node.js project, with or without a
\* Dockerfile
InitSmartDeploy ==
    /\ nexlayerClient = NullClient
    /\ call = NoCall
    /\ inflight = [i \in Invocations |-> NoInvocation]
    /\ cwd \in {d \in ProjectDirs : d.packageJson.def /\ d.packageJson.dependencies = {"express"}}
                 \cup {d \in ProjectDirs : ~d.packageJson.def /\ d.sources = {}}
    /\ command = NoCommand

NextSmartDeploy ==
    \/ \E i \in Invocations : SmartCheck(i, None, Some("t1"))
    \/ \E i \in Invocations : SmartPrepare(i)
    \/ \E i \in Invocations, build \in {p \in Procs : p.stderr = ""},
          resp \in {r \in ApiResponses : r.kind = "rejected"} :
            SmartFinish(i, build, build, resp)
    \/ OtherProgramWrites

SpecSmartDeploy == InitSmartDeploy /\ [][NextSmartDeploy]_vars

(***************************************************************************)
(* executeCommand(command, args), event by event.  spawn returns a child   *)
(* process at once; a command that cannot be started is reported by an     *)
(* 'error' event on the next tick.  Data arrives on stdout and stderr in   *)
(* chunks, and 'close' ends a started process, which is taken to exit at   *)
(* some time.                                                              *)
(***************************************************************************)
MaxChunks == 2

Chunks == {"a", "b"}

ExitCodes == {0, 1, 2}

\* const process = spawn(command, args), and the listeners registered on it
CommandSpawn(startable) ==
    /\ command.state = "none"
    /\ command' = [command EXCEPT !.state = IF startable THEN "running" ELSE "unstarted"]
    /\ UNCHANGED <<nexlayerClient, call, inflight, cwd>>

\* process.stdout.on('data', ...)
CommandStdout(data) ==
    /\ command.state = "running"
    /\ Len(command.output) < MaxChunks
    /\ command' = [command EXCEPT !.output = Append(@, data)]
    /\ UNCHANGED <<nexlayerClient, call, inflight, cwd>>

\* process.stderr.on('data', ...)
CommandStderr(data) ==
    /\ command.state = "running"
    /\ Len(command.error) < MaxChunks
    /\ command' = [command EXCEPT !.error = Append(@, data)]
    /\ UNCHANGED <<nexlayerClient, call, inflight, cwd>>

\* process.on('close', ...)
CommandClose(code) ==
    /\ command.state = "running"
    /\ command' = [command EXCEPT
                     !.state = "closed",
                     !.code = code,
                     !.resolved = @ + 1,
                     !.value =
                        [output |-> command.output,
                         error |-> IF code # 0 /\ command.error = <<>>
                                   THEN <<"Process exited with code " \o ToString(code)>>
                                   ELSE command.error]]
    /\ UNCHANGED <<nexlayerClient, call, inflight, cwd>>

\* the 'error' event of a process that could not be started: no listener is
\* registered for it, so emitting it throws, nothing emits 'close' afterwards and the
\* promise is left pending
CommandError ==
    /\ command.state = "unstarted"
    /\ command' = [command EXCEPT !.state = "failed", !.uncaught = "spawn docker ENOENT"]
    /\ UNCHANGED <<nexlayerClient, call, inflight, cwd>>

NextCommand ==
    \/ \E startable \in BOOLEAN : CommandSpawn(startable)
    \/ \E data \in Chunks : CommandStdout(data)
    \/ \E data \in Chunks : CommandStderr(data)
    \/ \E code \in ExitCodes : CommandClose(code)
    \/ CommandError

SpecCommand == Init /\ [][NextCommand]_vars /\ WF_vars(NextCommand)

(***************************************************************************)
(* Reading a rendered manifest back, piece by piece.  A piece is one line  *)
(* as the renderer wrote it: NexlayerApiClient ends each with a line       *)
(* break, FileGenerator starts each with one.  The line's indentation and  *)
(* what follows it tell what the line is.                                  *)
(***************************************************************************)
ApiOps ==
    {"generateYaml", "deploy-application", "add-database", "add-prisma-backend",
     "add-openai-integration", "create-full-stack"}

FgOps == {"generate-nexlayer-yaml", "generate-full-stack-project", "smart-deploy"}

HasManifest == call.op \in ApiOps \cup FgOps /\ call.pieces # <<>>

\* the piece without the line break the renderer put before or after it
LineOf(piece) ==
    LET a == IF IsPrefix(LF, piece) THEN Tail(piece) ELSE piece
    IN IF IsSuffix(LF, a) THEN SubSeq(a, 1, Len(a) - 1) ELSE a

RECURSIVE Indent(_)
Indent(line) ==
    IF line # <<>> /\ Head(line) = " " THEN 1 + Indent(Tail(line)) ELSE 0

\* the indentation of the `- name:` line that starts a pod
PodIndent == IF call.op \in ApiOps THEN 4 ELSE 2

KindOf(ind, body) ==
    IF ind = PodIndent - 2 /\ IsPrefix(L_name, body) /\ call.op \in ApiOps
      THEN "appName"
    ELSE IF ind = PodIndent - 2 /\ body = L_podsKey THEN "pods"
    ELSE IF ind = PodIndent /\ IsPrefix(L_dash \o L_name, body) THEN "podName"
    ELSE IF ind = PodIndent + 2 /\ IsPrefix(L_image, body) THEN "image"
    ELSE IF ind = PodIndent + 2 /\ body = L_servicePorts THEN "servicePorts"
    ELSE IF ind = PodIndent + 2 /\ body = L_vars THEN "vars"
    ELSE IF ind = PodIndent + 2 /\ body = L_secrets THEN "secrets"
    ELSE IF ind = PodIndent + 4 /\ IsPrefix(L_dash \o L_name, body) THEN "secretName"
    ELSE IF ind = PodIndent + 4 /\ IsPrefix(L_dash, body) THEN "port"
    ELSE IF ind = PodIndent + 4 THEN "var"
    ELSE "other"

\* one piece read back: what the line is, and the line without its indentation
ReadPiece(piece) ==
    LET line == LineOf(piece)
        ind == Indent(line)
        body == SubSeq(line, ind + 1, Len(line))
    IN [kind |-> KindOf(ind, body), body |-> body]

\* the lines of the manifest of the call
Lines == [i \in 1..Len(call.pieces) |-> ReadPiece(call.pieces[i])]

KindsOf(ls) == [i \in 1..Len(ls) |-> ls[i].kind]

\* the pod blocks of the lines ls: each runs from a `- name:` line to the next
BlocksOf(ls) ==
    LET starts == SelectSeqIdx(KindsOf(ls), {"podName"}, 1)
    IN [k \in 1..Len(starts) |->
          SubSeq(ls, starts[k],
                 IF k < Len(starts) THEN starts[k + 1] - 1 ELSE Len(ls))]

\* the lines of the given kinds in a block, in order, without their indentation
BodiesIn(block, kinds) ==
    LET sel == SelectSeq(block, LAMBDA x : x.kind \in kinds)
    IN [n \in 1..Len(sel) |-> sel[n].body]

FieldKinds == {"podName", "image", "servicePorts", "vars", "secrets"}

Rank(kind) ==
    CASE kind = "podName" -> 1
      [] kind = "image" -> 2
      [] kind = "servicePorts" -> 3
      [] kind = "vars" -> 4
      [] kind = "secrets" -> 5

PortsOf(pod) == IF pod.servicePorts.def THEN pod.servicePorts.val ELSE <<>>

VarsOf(pod) == IF pod.vars.def THEN pod.vars.val ELSE <<>>

SecretsOf(pod) == IF pod.secrets.def THEN pod.secrets.val ELSE <<>>

Count(s, x) == Cardinality({i \in 1..Len(s) : s[i] = x})

\* a var line as the renderer of the call writes it: quoted by NexlayerApiClient
VarLine(e) ==
    IF call.op \in ApiOps THEN e.key \o L_colon \o DQ \o e.value \o DQ
    ELSE e.key \o L_colon \o e.value

PortLine(port) == L_dash \o NumToStr(port)

Occurs(sub, s) == \E i \in 1..(Len(s) - Len(sub) + 1) : SubSeq(s, i, i + Len(sub) - 1) = sub

(***************************************************************************)
(* C1.  In the text generateYaml returns the application name line comes   *)
(* before the pods list; every pod has a block that starts with its name   *)
(* line followed by its image line, and the servicePorts, vars and secrets *)
(* lines that follow come in that order.                                   *)
(***************************************************************************)
C1_FieldOrder ==
    (call.op \in ApiOps /\ HasManifest) =>
        LET ks == KindsOf(Lines)
            fs == SelectSeqIdx(ks, FieldKinds, 1)
        IN /\ \E i, j \in 1..Len(ks) :
                /\ ks[i] = "appName" /\ ks[j] = "pods" /\ i < j
                /\ \A n \in 1..Len(fs) : j < fs[n]
           /\ Len(SelectSeqIdx(ks, {"podName"}, 1)) = Len(call.pods)
           /\ \A n \in 1..Len(fs) :
                /\ ks[fs[n]] = "podName" => n < Len(fs) /\ ks[fs[n + 1]] = "image"
                /\ ks[fs[n]] # "podName" => n > 1 /\ Rank(ks[fs[n - 1]]) < Rank(ks[fs[n]])

\* a manifest of two pods, one of them with ports, vars and secrets
C1_Witness ==
    /\ call.op = "generateYaml"
    /\ Len(call.pods) = 2
    /\ HasManifest
    /\ \E k \in 1..Len(BlocksOf(Lines)) :
          \A kind \in FieldKinds : BodiesIn(BlocksOf(Lines)[k], {kind}) # <<>>

(***************************************************************************)
(* C2.  In every manifest rendered, by either renderer, a pod's            *)
(* servicePorts, vars or secrets key line is written exactly once in the   *)
(* pod's block when the collection is non-empty, and not at all when it is *)
(* absent or empty.                                                        *)
(***************************************************************************)
C2_CollectionKeys ==
    HasManifest =>
        LET blocks == BlocksOf(Lines)
        IN /\ Len(blocks) = Len(call.pods)
           /\ \A k \in 1..Len(call.pods) :
                LET pod == call.pods[k]
                    n(kind) == Len(BodiesIn(blocks[k], {kind}))
                IN /\ n("servicePorts") = IF PortsOf(pod) # <<>> THEN 1 ELSE 0
                   /\ n("vars") = IF VarsOf(pod) # <<>> THEN 1 ELSE 0
                   /\ n("secrets") = IF SecretsOf(pod) # <<>> THEN 1 ELSE 0

(***************************************************************************)
(* C3.  In every manifest rendered, by either renderer, the application    *)
(* name, each pod's name and image, each var value and each secret field   *)
(* is written between double quotes, and each service port as a bare       *)
(* integer.                                                                *)
(***************************************************************************)
C3_Quoting ==
    HasManifest =>
        LET ls == Lines
            blocks == BlocksOf(ls)
        IN /\ \E i \in 1..Len(ls) :
                Occurs(L_name \o DQ \o call.applicationName \o DQ, ls[i].body)
           /\ Len(blocks) = Len(call.pods)
           /\ \A k \in 1..Len(call.pods) :
                LET pod == call.pods[k]
                    quoted(key, v) ==
                        \E i \in 1..Len(blocks[k]) :
                            Occurs(key \o DQ \o v \o DQ, blocks[k][i].body)
                IN /\ quoted(L_name, pod.name)
                   /\ quoted(L_image, pod.image)
                   /\ \A n \in 1..Len(VarsOf(pod)) :
                         quoted(VarsOf(pod)[n].key \o L_colon, VarsOf(pod)[n].value)
                   /\ \A n \in 1..Len(SecretsOf(pod)) :
                         LET x == SecretsOf(pod)[n]
                         IN /\ quoted(L_name, x.name)
                            /\ quoted(<<"d", "a", "t", "a", ":", " ">>, x.data)
                            /\ quoted(<<"P", "a", "t", "h", ":", " ">>, x.mountPath)
                            /\ quoted(<<"N", "a", "m", "e", ":", " ">>, x.fileName)
                   /\ \A n \in 1..Len(PortsOf(pod)) :
                         \E i \in 1..Len(blocks[k]) :
                             blocks[k][i].body = PortLine(PortsOf(pod)[n])

(***************************************************************************)
(* C4.  The text generateYaml returns holds the line name: "<application   *)
(* name>" and, for every pod, in the pod's block: its name line, its image *)
(* line, as many `- <port>` lines of each port as the pod lists it, and    *)
(* one `<KEY>: "<value>"` line for each var and no other var line.         *)
(***************************************************************************)
C4_NothingDropped ==
    (call.op \in ApiOps /\ HasManifest) =>
        LET ls == Lines
            blocks == BlocksOf(ls)
        IN /\ \E i \in 1..Len(ls) : ls[i].body = L_nameQ \o call.applicationName \o DQ
           /\ Len(blocks) = Len(call.pods)
           /\ \A k \in 1..Len(call.pods) :
                LET pod == call.pods[k]
                    portLines == BodiesIn(blocks[k], {"port"})
                    varLines == BodiesIn(blocks[k], {"var"})
                IN /\ \E i \in 1..Len(blocks[k]) :
                         blocks[k][i].body = L_dash \o L_nameQ \o pod.name \o DQ
                   /\ \E i \in 1..Len(blocks[k]) :
                         blocks[k][i].body = L_imageQ \o pod.image \o DQ
                   /\ Len(portLines) = Len(PortsOf(pod))
                   /\ \A n \in 1..Len(PortsOf(pod)) :
                         Count(portLines, PortLine(PortsOf(pod)[n]))
                             = Count(PortsOf(pod), PortsOf(pod)[n])
                   /\ Len(varLines) = Len(VarsOf(pod))
                   /\ \A n \in 1..Len(VarsOf(pod)) :
                         Count(varLines, VarLine(VarsOf(pod)[n])) = 1

\* a pod with two different ports and a pod with a var
C4_Witness ==
    /\ call.op = "generateYaml"
    /\ HasManifest
    /\ \E k \in 1..Len(call.pods) :
          /\ Len(PortsOf(call.pods[k])) = 2
          /\ PortsOf(call.pods[k])[1] # PortsOf(call.pods[k])[2]
    /\ \E k \in 1..Len(call.pods) : Len(VarsOf(call.pods[k])) >= 1

ValidApplications ==
    {a \in AppNames \X PodLists : ValidApplication(a[1], a[2])}

\* the text of every valid Application of the model
RenderedBy == [a \in ValidApplications |->
                  generateYaml(NewClient([sessionToken |-> NoneStr]), a[1], a[2])]

\* structural equality of section 3: an absent collection is an empty one, and the
\* vars of a pod are a mapping (the order of its properties does not count)
SamePod(p, q) ==
    /\ p.name = q.name
    /\ p.image = q.image
    /\ PortsOf(p) = PortsOf(q)
    /\ Range(VarsOf(p)) = Range(VarsOf(q))
    /\ SecretsOf(p) = SecretsOf(q)

StructurallyEqual(a, b) ==
    /\ a[1] = b[1]
    /\ Len(a[2]) = Len(b[2])
    /\ \A k \in 1..Len(a[2]) : SamePod(a[2][k], b[2][k])

(***************************************************************************)
(* C6.  Round trip: no two structurally different valid Applications       *)
(* render to the same text (a parser has only the text to go by, so it     *)
(* cannot return both).                                                    *)
(***************************************************************************)
C6_RoundTrip ==
    (call.op = "generateYaml" /\ ValidApplication(call.applicationName, call.pods)) =>
        \A a \in ValidApplications :
            RenderedBy[a] = call.yaml =>
                StructurallyEqual(a, <<call.applicationName, call.pods>>)

\* the value of a `- name: ` line, without the quotes around it if it has them
NameOn(body) ==
    LET v == SubSeq(body, Len(L_dash \o L_name) + 1, Len(body))
    IN IF Len(v) >= 2 /\ IsPrefix(DQ, v) /\ IsSuffix(DQ, v)
       THEN SubSeq(v, 2, Len(v) - 1) ELSE v

(***************************************************************************)
(* C7.  In every manifest rendered, by either renderer, there is one pod   *)
(* block per input pod, the k-th block is that of the k-th pod, and the    *)
(* port lines of a block are the pod's service ports in the order given.   *)
(***************************************************************************)
C7_PodOrder ==
    HasManifest =>
        LET blocks == BlocksOf(Lines)
        IN /\ Len(blocks) = Len(call.pods)
           /\ \A k \in 1..Len(call.pods) :
                /\ NameOn(blocks[k][1].body) = call.pods[k].name
                /\ BodiesIn(blocks[k], {"port"}) =
                      [n \in 1..Len(PortsOf(call.pods[k])) |->
                          PortLine(PortsOf(call.pods[k])[n])]

\* two pods of different names, one of them with two different ports
C7_Witness ==
    /\ HasManifest
    /\ Len(call.pods) = 2
    /\ call.pods[1].name # call.pods[2].name
    /\ \E k \in 1..2 :
          /\ Len(PortsOf(call.pods[k])) = 2
          /\ PortsOf(call.pods[k])[1] # PortsOf(call.pods[k])[2]

C9_PortsCollapsed ==
    HasManifest =>
        LET blocks == BlocksOf(Lines)
        IN /\ Len(blocks) = Len(call.pods)
           /\ \A k \in 1..Len(call.pods) :
                \A n \in 1..Len(PortsOf(call.pods[k])) :
                    Count(BodiesIn(blocks[k], {"port"}),
                          PortLine(PortsOf(call.pods[k])[n])) <= 1

StructurallyInvalid(applicationName, pods) ==
    \/ applicationName = <<>>
    \/ pods = <<>>
    \/ \E i, j \in 1..Len(pods) : i # j /\ pods[i].name = pods[j].name

(***************************************************************************)
(* C10.  Building a manifest from an empty application name, an empty pod  *)
(* list or two pods of the same name fails and returns no manifest.        *)
(***************************************************************************)
C10_RejectsInvalid ==
    (call.op \in ApiOps \cup FgOps
        /\ StructurallyInvalid(call.applicationName, call.pods)) =>
            /\ call.yaml = <<>>
            /\ call.error # ""


\* some pod holds a servicePorts entry outside [1, 65535]
PortOutOfRange(pods) ==
    \E i \in 1..Len(pods) :
        \E k \in 1..Len(PortsOf(pods[i])) : PortsOf(pods[i])[k] \notin 1..65535

(***************************************************************************)
(* C11.  A pod with a servicePorts entry outside [1, 65535] is rejected    *)
(* before any manifest text is rendered or sent to the deployment API: the *)
(* call returns no text, sends no request and reports an error; a valid    *)
(* application, whose ports may be 1 and 65535, is rendered.               *)
(***************************************************************************)
C11_PortRange ==
    call.op \in {"generateYaml", "deploy-application"} =>
        /\ PortOutOfRange(call.pods) =>
              call.yaml = <<>> /\ call.requests = <<>> /\ call.error # ""
        /\ ValidApplication(call.applicationName, call.pods) => call.yaml # <<>>

\* what section 4.1 of the specification finds wrong with an application, each
\* finding with the pod and the entry it is about
Findings(applicationName, pods) ==
    (IF applicationName = <<>> THEN {<<"applicationName is empty", 0, 0>>} ELSE {})
      \cup (IF pods = <<>> THEN {<<"pods is empty", 0, 0>>} ELSE {})
      \cup {<<"pod name is empty", i, 0>> : i \in {n \in 1..Len(pods) : pods[n].name = <<>>}}
      \cup {<<"pod name is duplicated", i, 0>> :
               i \in {n \in 1..Len(pods) : \E m \in 1..(n - 1) : pods[m].name = pods[n].name}}
      \cup {<<"pod image is empty", i, 0>> :
               i \in {n \in 1..Len(pods) : pods[n].image = <<>>}}
      \cup {<<"service port is out of range", e[1], e[2]>> :
               e \in {f \in (1..Len(pods)) \X (1..(MaxPorts + 1)) :
                         /\ f[2] <= Len(PortsOf(pods[f[1]]))
                         /\ PortsOf(pods[f[1]])[f[2]] \notin 1..65535}}
      \cup {<<"var name is empty", e[1], e[2]>> :
               e \in {f \in (1..Len(pods)) \X (1..(MaxVars + 1)) :
                         /\ f[2] <= Len(VarsOf(pods[f[1]]))
                         /\ VarsOf(pods[f[1]])[f[2]].key = <<>>}}
      \cup {<<"secret has no mountPath", e[1], e[2]>> :
               e \in {f \in (1..Len(pods)) \X (1..(MaxSecrets + 1)) :
                         /\ f[2] <= Len(SecretsOf(pods[f[1]]))
                         /\ SecretsOf(pods[f[1]])[f[2]].mountPath = <<>>}}
      \cup {<<"secret has no fileName", e[1], e[2]>> :
               e \in {f \in (1..Len(pods)) \X (1..(MaxSecrets + 1)) :
                         /\ f[2] <= Len(SecretsOf(pods[f[1]]))
                         /\ SecretsOf(pods[f[1]])[f[2]].fileName = <<>>}}

\* the entries a joined list shows: every other fragment is a separator
EntriesShown(frags) == (Len(frags) + 1) \div 2

(***************************************************************************)
(* C12.  Validating the manifest of an application with two or more        *)
(* problems yields valid = false with one entry of errors for each of the  *)
(* problems, and validate-yaml shows every entry: its text is the          *)
(* validation-failed text, with at least as many entries as there are      *)
(* problems.                                                               *)
(***************************************************************************)
C12_ValidatorAccumulates ==
    (/\ call.op = "validate-yaml"
     /\ Cardinality(Findings(call.applicationName, call.pods)) >= 2) =>
        /\ call.template = "YAML validation failed:\nErrors: ${errors}"
        /\ call.args # <<"Unknown error">>
        /\ EntriesShown(call.args) >= Cardinality(Findings(call.applicationName, call.pods))


\* the lines of a text: what stands between its line breaks
SplitLines(text) ==
    LET breaks == {i \in 1..Len(text) : text[i] = "\n"}
        at(k) == IF k = 0 THEN 0
                 ELSE IF k > Cardinality(breaks) THEN Len(text) + 1
                 ELSE CHOOSE i \in breaks : Cardinality({j \in breaks : j < i}) = k - 1
    IN [k \in 1..(Cardinality(breaks) + 1) |-> SubSeq(text, at(k - 1) + 1, at(k) - 1)]

\* a scalar without the double quotes around it
Unquote(v) ==
    IF Len(v) >= 2 /\ v[1] = "\"" /\ v[Len(v)] = "\"" THEN SubSeq(v, 2, Len(v) - 1) ELSE v

\* what follows the prefix in a line that starts with it
After(prefix, body) == SubSeq(body, Len(prefix) + 1, Len(body))

\* a line of a manifest whose pods start at the indentation podIndent
ReadLine(podIndent, line) ==
    LET ind == Indent(line)
        body == SubSeq(line, ind + 1, Len(line))
    IN [kind |-> IF ind = 2 /\ IsPrefix(L_name, body) THEN "appName"
                 ELSE IF ind = podIndent /\ IsPrefix(L_dash \o L_name, body) THEN "podName"
                 ELSE IF ind = podIndent + 2 /\ IsPrefix(L_image, body) THEN "image"
                 ELSE IF ind = podIndent + 4 /\ IsPrefix(L_dash \o L_name, body)
                   THEN "secretName"
                 ELSE IF ind = podIndent + 4 /\ IsPrefix(L_dash, body) THEN "port"
                 ELSE IF ind = podIndent + 4 THEN "var"
                 ELSE IF ind = podIndent + 6 THEN "secretField"
                 ELSE "other",
        body |-> body]

\* the application a manifest text describes, read line by line: the application's
\* name, and of each pod the name, the image, the ports, the vars and the secrets
ReadManifest(text, podIndent) ==
    LET ls == SplitLines(text)
        rd == [i \in 1..Len(ls) |-> ReadLine(podIndent, ls[i])]
        blocks == BlocksOf(rd)
        field(block, kind, prefix) ==
            LET b == BodiesIn(block, {kind})
            IN [n \in 1..Len(b) |-> Unquote(After(prefix, b[n]))]
    IN [name |-> field(SubSeq(rd, 1, Len(rd) - Len(Flatten(blocks))), "appName", L_name),
        pods |-> [k \in 1..Len(blocks) |->
                    [name |-> field(blocks[k], "podName", L_dash \o L_name),
                     image |-> field(blocks[k], "image", L_image),
                     servicePorts |-> field(blocks[k], "port", L_dash),
                     vars |-> BodiesIn(blocks[k], {"var"}),
                     secrets |-> BodiesIn(blocks[k], {"secretName", "secretField"})]]]

(***************************************************************************)
(* C13.  The two layouts describe the same application: read back, the     *)
(* text FileGenerator.generateNexlayerYaml writes for an application name  *)
(* and pods has the pods, in order and with the name, image, servicePorts, *)
(* vars and secrets, that the text of NexlayerApiClient.generateYaml has   *)
(* for the same application name and pods (quotes around a scalar set      *)
(* aside).                                                                 *)
(***************************************************************************)
C13_LayoutsAgree ==
    (call.op = "generate-nexlayer-yaml" /\ call.pieces # <<>>) =>
        LET sibling == ReadManifest(call.yaml, 2)
            nested == ReadManifest(generateYaml(NewClient([sessionToken |-> NoneStr]),
                                                call.applicationName, call.pods), 4)
        IN /\ sibling.name = nested.name
           /\ Len(sibling.pods) = Len(nested.pods)
           /\ \A k \in 1..Len(sibling.pods) :
                 /\ sibling.pods[k].name = nested.pods[k].name
                 /\ sibling.pods[k].image = nested.pods[k].image
                 /\ sibling.pods[k].servicePorts = nested.pods[k].servicePorts
                 /\ Len(sibling.pods[k].vars) = Len(nested.pods[k].vars)
                 /\ Len(sibling.pods[k].secrets) = Len(nested.pods[k].secrets)


(***************************************************************************)
(* C14.  No retry: an invocation sends at most one request to each         *)
(* operation of the deployment API, and a rejected request is the last     *)
(* request of its invocation.                                              *)
(***************************************************************************)
C14_NoRetry ==
    /\ \A i, j \in 1..Len(call.requests) :
          call.requests[i].url = call.requests[j].url => i = j
    /\ call.response.kind = "rejected" => Len(call.requests) = 1

C14_Witness ==
    /\ call.op = "deploy-application"
    /\ call.response.kind = "rejected"
    /\ Len(call.requests) = 1
    /\ call.requests[1].url = "/startUserDeployment"
    /\ call.template = "Failed to deploy application: ${error.message}"

\* the tools named by C15, and the message under which the method each of them
\* calls throws a rejected request
ApiTools ==
    {"deploy-application", "extend-deployment", "claim-deployment", "manage-reservation",
     "get-reservations", "validate-yaml", "get-schema"}

FailedOperation(url) ==
    CASE url = "/startUserDeployment" -> "Failed to start deployment: "
      [] url = "/extendDeployment" -> "Failed to extend deployment: "
      [] url = "/claimDeployment" -> "Failed to claim deployment: "
      [] url = "/addDeploymentReservation" -> "Failed to add deployment reservation: "
      [] url = "/removeDeploymentReservation" -> "Failed to remove deployment reservation: "
      [] url = "/getReservations" -> "Failed to get reservations: "
      [] url = "/validate" -> "Failed to validate YAML: "
      [] url = "/schema" -> "Failed to get schema: "

\* the texts a handler returns from its catch branch: each begins `Failed to`
FailureTemplates ==
    {"Failed to generate Dockerfile: ${error.message}",
     "Failed to generate nexlayer.yaml: ${error.message}",
     "Failed to build and push Docker image: ${error.message}",
     "Failed to generate full-stack project: ${error.message}",
     "Failed to deploy application: ${error.message}",
     "Failed to deploy from local YAML: ${error.message}",
     "Failed to smart deploy: ${error.message}",
     "Failed to add database: ${error.message}",
     "Failed to add Prisma backend: ${error.message}",
     "Failed to add OpenAI integration: ${error.message}",
     "Failed to extend deployment: ${error.message}",
     "Failed to claim deployment: ${error.message}",
     "Failed to ${action} reservation: ${error.message}",
     "Failed to get reservations: ${error.message}",
     "Failed to validate YAML: ${error.message}",
     "Failed to get schema: ${error.message}",
     "Failed to create full-stack application: ${error.message}"}

(***************************************************************************)
(* C15.  When the request of one of the tools deploy-application,          *)
(* extend-deployment, claim-deployment, manage-reservation,                *)
(* get-reservations, validate-yaml and get-schema fails, by a rejection or *)
(* by a body {success: false, error}, the tool's text is its `Failed to`   *)
(* text (never a `Successfully` text) and the message in it names the      *)
(* failed operation and carries the API's error message.                   *)
(***************************************************************************)
C15_FailureReported ==
    (call.op \in ApiTools /\ call.response.kind \in {"rejected", "successFalse"}) =>
        /\ call.contents = 1
        /\ call.template \in FailureTemplates
        /\ call.error = FailedOperation(call.requests[1].url) \o call.response.error

\* the operations that work on a session: all but schema fetch and validate
SessionUrls ==
    {"/startUserDeployment", "/extendDeployment", "/claimDeployment",
     "/addDeploymentReservation", "/removeDeploymentReservation", "/getReservations"}

C17_HandlersReturn ==
    call.op \notin {"none", "generateYaml"} =>
        /\ call.contents = 1
        /\ call.uncaught = ""
        /\ call.error # "" => call.template \in FailureTemplates


(***************************************************************************)
(* C18.  Concurrent invocations do not interfere: whatever the             *)
(* interleaving, the text a pending deploy-application invocation has sent *)
(* to startUserDeployment is the text rendered from its own name, image,   *)
(* servicePorts and vars, and its pods are, after rendering, the pods it   *)
(* built from them.                                                        *)
(***************************************************************************)
C18_NoInterference ==
    \A i \in Invocations :
        inflight[i].active =>
            LET inv == inflight[i]
                own == <<MkPod(inv.name, inv.image, Some(inv.servicePorts),
                               Some(inv.vars), None)>>
            IN /\ inv.pods = own
               /\ Len(inv.requests) = 1
               /\ inv.requests[1].url = "/startUserDeployment"
               /\ inv.requests[1].body =
                      yamlToString([application |-> [name |-> inv.name, pods |-> own]])

\* two invocations with different parameters are pending at once, the second begun
\* on the client the first one cached
C18_Witness ==
    /\ \A i \in Invocations : inflight[i].active
    /\ inflight[1].sessionToken # inflight[2].sessionToken
    /\ inflight[1].name # inflight[2].name
    /\ inflight[1].servicePorts # inflight[2].servicePorts
    /\ inflight[1].requests[1].body # inflight[2].requests[1].body

(***************************************************************************)
(* C19.  A manage-reservation invocation sends exactly one request, with   *)
(* its sessionToken and applicationName: to addDeploymentReservation when  *)
(* action is 'add', to removeDeploymentReservation when action is          *)
(* 'remove'; for any other action no request to add or to remove a         *)
(* reservation is sent.                                                    *)
(***************************************************************************)
C19_ManageReservation ==
    call.op = "manage-reservation" =>
        LET action == call.args[1]
            sent(url) ==
                /\ Len(call.requests) = 1
                /\ call.requests[1].url = url
                /\ call.requests[1].sessionToken = call.sessionToken
                /\ call.requests[1].applicationName = Some(call.applicationName)
        IN /\ action = "add" => sent("/addDeploymentReservation")
           /\ action = "remove" => sent("/removeDeploymentReservation")
           /\ action \notin {"add", "remove"} =>
                 \A i \in 1..Len(call.requests) :
                     call.requests[i].url \notin {"/addDeploymentReservation",
                                                  "/removeDeploymentReservation"}

\* the number a sequence of decimal digits writes
RECURSIVE ParseNum(_)
ParseNum(ds) ==
    IF ds = <<>> THEN 0 ELSE 10 * ParseNum(SubSeq(ds, 1, Len(ds) - 1)) + DigitValue(ds[Len(ds)])

\* the ports of the EXPOSE lines of a Dockerfile
ExposedPorts(content) ==
    LET at == SelectSeqIdx([i \in 1..Len(content) |-> content[i].lit], {"EXPOSE "}, 1)
    IN [n \in 1..Len(at) |-> ParseNum(content[at[n] + 1].val)]

FilesNamed(name) == SelectSeq(call.files, LAMBDA f : f.name = name)

(***************************************************************************)
(* C20.  In the result of generateFullStack nexlayer.yaml is in files      *)
(* once, and for each tier given the one servicePorts entry of the tier's  *)
(* pod in nexlayer.yaml is the port of the EXPOSE line of the tier's       *)
(* Dockerfile: the port requested, else 3000 for the frontend and 8000 for *)
(* the backend.                                                            *)
(***************************************************************************)
C20_PortsAgree ==
    (call.op = "generate-full-stack-project" /\ call.files # <<>>) =>
        LET blocks == BlocksOf(Lines)
            tierOk(tier, suffix, dockerfile, defaultPort) ==
                tier.def =>
                    LET port == IF tier.val.port.def /\ tier.val.port.val # 0
                                THEN tier.val.port.val ELSE defaultPort
                        mine == SelectSeq(blocks,
                                    LAMBDA b : NameOn(b[1].body) = call.applicationName \o suffix)
                        files == FilesNamed(dockerfile)
                    IN /\ Len(mine) = 1
                       /\ BodiesIn(mine[1], {"port"}) = <<PortLine(port)>>
                       /\ Len(files) = 1
                       /\ ExposedPorts(files[1].content) = <<port>>
        IN /\ Len(FilesNamed("nexlayer.yaml")) = 1
           /\ tierOk(call.frontend, L_frontend, "Dockerfile.frontend", 3000)
           /\ tierOk(call.backend, L_backend, "Dockerfile.backend", 8000)

\* both tiers, the frontend on the port requested and the backend on its default
C20_Witness ==
    /\ call.op = "generate-full-stack-project"
    /\ call.frontend.def /\ call.frontend.val.port = [def |-> TRUE, val |-> 8080]
    /\ call.backend.def /\ ~call.backend.val.port.def
    /\ Len(FilesNamed("nexlayer.yaml")) = 1
    /\ ExposedPorts(FilesNamed("Dockerfile.frontend")[1].content) = <<8080>>
    /\ ExposedPorts(FilesNamed("Dockerfile.backend")[1].content) = <<8000>>

(***************************************************************************)
(* C21.  generateDockerfile without a customDockerfile returns, for each   *)
(* type it has a template for, a text with one EXPOSE line, whose port is  *)
(* the port given, or 3000 when none is given; with a non-empty            *)
(* customDockerfile it returns that text and nothing else, whatever the    *)
(* type.                                                                   *)
(***************************************************************************)
C21_ExposeOnce ==
    call.op = "generate-dockerfile" =>
        LET p == call.params
            custom == p.customDockerfile.def /\ p.customDockerfile.val # <<>>
            supported == p.type \in {"node", "react", "next", "nextjs", "vue", "python",
                                     "go", "rust", "php", "java", "dotnet"}
        IN /\ custom =>
                /\ call.error = ""
                /\ Len(call.files) = 1
                /\ call.files[1].content = <<Val(p.customDockerfile.val)>>
           /\ (~custom /\ supported) =>
                /\ call.error = ""
                /\ Len(call.files) = 1
                /\ ExposedPorts(call.files[1].content)
                      = <<IF p.port.def THEN p.port.val ELSE 3000>>

\* a Dockerfile generated for port 0
C21_Witness ==
    /\ call.op = "generate-dockerfile"
    /\ call.params.type = "php"
    /\ call.params.port = [def |-> TRUE, val |-> 0]
    /\ ~call.params.customDockerfile.def
    /\ ExposedPorts(call.files[1].content) = <<0>>

(***************************************************************************)
(* C22.  getClient constructs a client once: no second instance is ever    *)
(* constructed, the cached client is never replaced or changed once it     *)
(* exists, every handler that obtained a client obtained the cached one,   *)
(* and the session token of its configuration is the one of the invocation *)
(* that constructed it.                                                    *)
(***************************************************************************)
C22_SingleClient ==
    /\ [](nexlayerClient.instance <= 1)
    /\ []((call.op \notin {"none", "generateYaml"} /\ call.self.created) =>
              call.self = nexlayerClient)
    /\ [][nexlayerClient.created => nexlayerClient' = nexlayerClient]_vars
    /\ [][(~nexlayerClient.created /\ nexlayerClient'.created) =>
             \/ /\ call'.self = nexlayerClient'
                /\ nexlayerClient'.config.sessionToken = call'.sessionToken
             \/ \E i \in Invocations :
                   /\ ~inflight[i].active /\ inflight'[i].active
                   /\ nexlayerClient'.config.sessionToken = inflight'[i].sessionToken]_vars

\* a later invocation passes another session token and obtains the client configured
\* with the first one
C22_Witness ==
    /\ call.op = "extend-deployment"
    /\ call.sessionToken.def
    /\ nexlayerClient.created
    /\ nexlayerClient.config.sessionToken.def
    /\ call.sessionToken # nexlayerClient.config.sessionToken
    /\ call.self = nexlayerClient

(***************************************************************************)
(* C23.  build-and-push-docker answers 'Successfully built and pushed      *)
(* Docker image' exactly when docker build and docker push were both run   *)
(* and both exited with code 0, whatever they wrote; docker push is        *)
(* started only after a docker build that exited with code 0; both         *)
(* commands are given the image name <registry>/<imageName>:<tag>.         *)
(***************************************************************************)
C23_SuccessIffExitZero ==
    call.op = "build-and-push-docker" =>
        LET exitedZero(c) == c.proc.started /\ c.proc.code = 0
            succeeded ==
                call.template = "Successfully built and pushed Docker image: ${fullImageName}"
        IN /\ succeeded <=> (/\ Len(call.commands) = 2
                              /\ exitedZero(call.commands[1])
                              /\ exitedZero(call.commands[2]))
           /\ Len(call.commands) = 2 => exitedZero(call.commands[1])
           /\ \A i \in 1..Len(call.commands) :
                  call.commands[i].image = call.commands[1].image

(***************************************************************************)
(* C24.  The promise of executeCommand is resolved at some time, whether   *)
(* or not the command could be started; it is never resolved twice and     *)
(* never rejected, and after an exit code other than 0 the error it was    *)
(* resolved with is not empty.                                             *)
(***************************************************************************)
C24_Terminates ==
    /\ <>(command.resolved = 1)
    /\ [](command.resolved <= 1 /\ command.rejected = 0)
    /\ []((command.state = "closed" /\ command.code # 0) => command.value.error # <<>>)

\* the place of a step among the steps of the handler, 0 when it was not started
StepAt(step) ==
    LET at == {i \in 1..Len(call.steps) : call.steps[i] = step}
    IN IF at = {} THEN 0 ELSE CHOOSE i \in at : \A j \in at : i <= j

StepCount(step) == Cardinality({i \in 1..Len(call.steps) : call.steps[i] = step})

(***************************************************************************)
(* C25.  In smart-deploy docker push is started only after a docker build  *)
(* that exited with code 0, nexlayer.yaml is written only after a docker   *)
(* push that exited with code 0, and startUserDeployment is called at most *)
(* once, after nexlayer.yaml was written and only for an invocation with a *)
(* session token; after a build or a push that failed neither happens.     *)
(***************************************************************************)
C25_StepsGated ==
    call.op = "smart-deploy" =>
        LET exitedZero(c) == c.proc.started /\ c.proc.code = 0
            build == StepAt("docker build")
            push == StepAt("docker push")
            write == StepAt("writeFile nexlayer.yaml")
            deploy == StepAt("startUserDeployment")
            failedCommand == \E i \in 1..Len(call.commands) : ~exitedZero(call.commands[i])
        IN /\ push > 0 => (0 < build /\ build < push /\ exitedZero(call.commands[1]))
           /\ write > 0 => (0 < push /\ push < write /\ exitedZero(call.commands[2]))
           /\ deploy > 0 => (/\ 0 < write /\ write < deploy
                             /\ call.sessionToken.def /\ call.sessionToken.val # ""
                             /\ Exists(cwd, "nexlayer.yaml"))
           /\ StepCount("startUserDeployment") <= 1
           /\ Len(call.requests) = StepCount("startUserDeployment")
           /\ failedCommand => (/\ write = 0 /\ deploy = 0 /\ call.requests = <<>>
                                /\ Exists(cwd, "nexlayer.yaml")
                                     = Exists(call.dir, "nexlayer.yaml"))

\* a run with all its steps, in a directory without a Dockerfile
C25_Witness ==
    /\ call.op = "smart-deploy"
    /\ call.steps = <<"analyzeProject", "access Dockerfile", "writeFile Dockerfile",
                      "docker build", "docker push", "writeFile nexlayer.yaml",
                      "startUserDeployment">>
    /\ Len(call.requests) = 1
    /\ Exists(cwd, "nexlayer.yaml")

(***************************************************************************)
(* C26.  No step of smart-deploy changes or removes a Dockerfile that is   *)
(* in the working directory, whatever other invocations and programs do    *)
(* between its steps.                                                      *)
(***************************************************************************)
C26_DockerfileKept ==
    [][\A f \in cwd.files :
          (f.path = "Dockerfile" /\ cwd'.known) => f \in cwd'.files]_vars

(***************************************************************************)
(* C27.  When generate-files-locally fails with 'Unsupported project type' *)
(* the output directory holds the directories and files it held before.    *)
(***************************************************************************)
C27_NoTraceOnError ==
    (/\ call.op = "generate-files-locally"
     /\ call.args[1] \notin {"react", "next", "fullstack"}
     /\ call.error = "Unsupported project type: " \o call.args[1]) =>
        /\ cwd.dirs = call.dir.dirs
        /\ cwd.files = call.dir.files

(***************************************************************************)
(* C28.  generateDockerfile without a customDockerfile returns a           *)
(* Dockerfile for every type of the declared union other than 'custom',    *)
(* and generateFullStack returns a result for every frontend and backend   *)
(* type.                                                                   *)
(***************************************************************************)
C28_DeclaredTypesSupported ==
    /\ (/\ call.op = "generate-dockerfile"
        /\ call.params.type \in {"node", "python", "go", "rust", "nextjs", "react", "vue",
                                 "angular", "next", "php", "java", "dotnet"}
        /\ ~call.params.customDockerfile.def) =>
           /\ call.template = "Generated Dockerfile for ${name} (${type}):"
           /\ Len(call.files) = 1
    /\ call.op = "generate-full-stack-project" =>
           /\ call.template = "Generated full-stack project \"${appName}\":"
           /\ call.files # <<>>

(***************************************************************************)
(* C29.  When the instructions of generateFullStack say that the frontend  *)
(* (the backend) files were generated, for a type of the declared union,   *)
(* files holds a file under frontend/ (backend/) besides the Dockerfile.   *)
(***************************************************************************)
C29_InstructionsAgree ==
    call.op = "generate-full-stack-project" =>
        LET said(template, types) ==
                \E i \in 1..Len(call.instructions) :
                    /\ call.instructions[i].template = template
                    /\ call.instructions[i].type \in types
            sourceUnder(dirs) ==
                \E i \in 1..Len(call.files) :
                    /\ Dirname(call.files[i].path) \in dirs
                    /\ call.files[i].name \notin {"Dockerfile.frontend", "Dockerfile.backend"}
        IN /\ said("Frontend (${frontend.type}) files generated in /frontend directory",
                   {"nextjs", "react", "vue", "angular"}) =>
                sourceUnder({"frontend", "frontend/src", "frontend/public", "frontend/app"})
           /\ said("Backend (${backend.type}) files generated in /backend directory",
                   {"node", "python", "go", "rust"}) =>
                sourceUnder({"backend"})

(***************************************************************************)
(* C30.  Whatever the working directory holds, the analysis smart-deploy   *)
(* works with has a type among react, next, vue, node, python and go and a *)
(* port: react (with react-scripts) before next, before vue (with          *)
(* @vue/cli-service), else node, all on 3000, when package.json is read;   *)
(* python on 8000 or go on 8080 when it is not and the directory has such  *)
(* sources; and smart-deploy does not fail with 'Unsupported application   *)
(* type'.  (A directory that can be neither read nor listed gives no       *)
(* analysis.)                                                              *)
(***************************************************************************)
C30_AnalysisSupported ==
    (call.op = "smart-deploy" /\ (call.dir.packageJson.def \/ call.dir.readable)) =>
        LET a == call.analysis
            pkg == call.dir.packageJson
            has(d) == d \in pkg.dependencies
        IN /\ a.type \in {"react", "next", "vue", "node", "python", "go"}
           /\ a.port > 0
           /\ pkg.def =>
                /\ a.port = 3000
                /\ a.type = IF has("react") /\ has("react-scripts") THEN "react"
                            ELSE IF has("next") THEN "next"
                            ELSE IF has("vue") /\ has("@vue/cli-service") THEN "vue"
                            ELSE "node"
           /\ ~pkg.def =>
                \/ "py" \in call.dir.sources /\ a.type = "python" /\ a.port = 8000
                \/ "go" \in call.dir.sources /\ a.type = "go" /\ a.port = 8080
                \/ call.dir.sources = {} /\ a.type = "node" /\ a.port = 3000
           /\ \A t \in {"", "react", "next", "vue", "node", "python", "go", "angular",
                        "custom"} :
                  call.error # "Unsupported application type: " \o t
           /\ (~Exists(call.dir, "Dockerfile") /\ call.dir.writable) =>
                  \E f \in cwd.files : f.path = "Dockerfile" /\ ExposedPorts(f.content) = <<a.port>>

\* a project with react, react-scripts and next, without a Dockerfile: the Dockerfile of
\* a React project is written
C30_Witness ==
    /\ call.op = "smart-deploy"
    /\ call.dir.packageJson.def
    /\ call.dir.packageJson.dependencies = {"react", "react-scripts", "next"}
    /\ ~Exists(call.dir, "Dockerfile")
    /\ call.analysis.type = "react"
    /\ Exists(cwd, "Dockerfile")
    /\ Exists(cwd, "nginx.conf")

====
